---- MODULE Spec2Model ----
(***************************************************************************)
(* A model of ruby-references: the content-addressed cache, the parallel  *)
(* driver (parse / all_references), the self-reference filter, the         *)
(* Zeitwerk constant resolver and the reference builder.                   *)
(*                                                                         *)
(* Strings that the program splits or joins on "::" are modelled as the    *)
(* sequence of their segments, exactly as Rust's split("::") sees them:    *)
(*   "::Foo::Bar" is <<"", "Foo", "Bar">>,  "Foo" is <<"Foo">>,            *)
(*   "" is <<"">>.  a + "::" + b is then the concatenation a \o b.         *)
(* A path is its components plus the extension of its last component.      *)
(***************************************************************************)
EXTENDS Integers, Sequences, FiniteSets, TLC

VARIABLES
  files,            \* source tree: included path -> its contents, or Unreadable
  cacheRoot,        \* the cache directory: "absent" | "dir" | "ro"
  shardDir,         \* two-character shard directory -> "absent" | "dir" | "ro"
  cacheFiles,       \* cache_file_path -> bytes on disk, or Absent
  config,           \* the Configuration of the current run
  run,              \* number of all_references runs started
  envSteps,         \* number of changes made to the file system from outside
  parsePc,          \* "idle" | "running": whether an all_references call is under way
  taskPc,           \* per-file task of parse: its position
  taskKey,          \* the EmptyCacheEntry a task holds after a Miss
  taskPf,           \* the ProcessedFile a task holds
  completed,        \* finished tasks in completion order (what join_next yields)
  processed_files,  \* the Vec parse accumulates
  results,          \* what all_references returned: the last run and the one before it
  getLog,           \* per path: the last cache get of the current run, with what it saw
  stored,           \* per path: the last entry the program wrote and nothing disturbed since
  input,            \* the arguments of a function applied on its own
  output            \* its result, once applied

vars == <<files, cacheRoot, shardDir, cacheFiles, config, run, envSteps, parsePc,
          taskPc, taskKey, taskPf, completed, processed_files, results,
          getLog, stored, input, output>>

----------------------------------------------------------------------------
(* Bounds of the model *)

MaxRuns == 2
MaxEnvSteps == 1
MaxBody == 2
MaxNesting == 3

----------------------------------------------------------------------------
(* Generic helpers *)

None == [some |-> FALSE]
Some(x) == [some |-> TRUE, val |-> x]

Ok(x) == [ok |-> TRUE, val |-> x]
Err(e) == [ok |-> FALSE, err |-> e]

Elems(s) == {s[i] : i \in DOMAIN s}

IsPrefix(a, b) == Len(a) <= Len(b) /\ SubSeq(b, 1, Len(a)) = a

RECURSIVE Concat(_)
Concat(ss) == IF ss = <<>> THEN <<>> ELSE Head(ss) \o Concat(Tail(ss))

EmptyMap == [k \in {} |-> 0]

----------------------------------------------------------------------------
(* Paths and the fixture tree *)

Path(comps, ext) == [comps |-> comps, ext |-> ext]

absolute_root == <<"r">>

FooRb == Path(<<"r", "packs", "foo", "app", "services", "foo">>, "rb")
FooBarRb == Path(<<"r", "packs", "foo", "app", "services", "foo", "bar">>, "rb")
BarRb == Path(<<"r", "packs", "bar", "app", "services", "bar">>, "rb")
SomeConcernRb ==
  Path(<<"r", "packs", "bar", "app", "models", "concerns", "some_concern">>, "rb")
ModelsFooRb == Path(<<"r", "packs", "bar", "app", "models", "foo">>, "rb")
WidgetRb == Path(<<"r", "app", "company_data", "widget">>, "rb")

\* every *.rb file on disk under the root (what the autoload globs can find)
TreeFiles == {FooRb, FooBarRb, BarRb, SomeConcernRb, ModelsFooRb, WidgetRb}

\* Configuration.included_files (a HashSet: no path twice)
included_files == {FooRb, BarRb}

----------------------------------------------------------------------------
(* The AST of one file, as lib_ruby_parser hands it to the collector.      *)
(* b and e are what LineColLookup.get returns for expression_l.begin and   *)
(* expression_l.end: <<row, col>>, both 1-based.                           *)

Const(scope, name, b, e) == [type |-> "Const", scope |-> scope, name |-> name, b |-> b, e |-> e]
Cbase == [type |-> "Cbase"]
Class(name, superclass, body) ==
  [type |-> "Class", name |-> name, superclass |-> superclass, body |-> body]
Module(name, body) == [type |-> "Module", name |-> name, body |-> body]
Casgn(scope, name, value, b, e) ==
  [type |-> "Casgn", scope |-> scope, name |-> name, value |-> value, b |-> b, e |-> e]
Send(recv, method_name, args, b, e) ==
  [type |-> "Send", recv |-> recv, method_name |-> method_name, args |-> args, b |-> b, e |-> e]
Sym(name) == [type |-> "Sym", name |-> name]
Str(value) == [type |-> "Str", value |-> value]
Pair(key, value) == [type |-> "Pair", key |-> key, value |-> value]
Kwargs(pairs) == [type |-> "Kwargs", pairs |-> pairs]
Def(body) == [type |-> "Def", body |-> body]
IntLit == [type |-> "Int"]
Lvar == [type |-> "Lvar"]
Self_ == [type |-> "Self_"]

Rng(start_row, start_col, end_row, end_col) ==
  [start_row |-> start_row, start_col |-> start_col, end_row |-> end_row, end_col |-> end_col]

UnresolvedReference(name, namespace_path, location) ==
  [name |-> name, namespace_path |-> namespace_path, location |-> location]

ParsedDefinition(fully_qualified_name, location) ==
  [fully_qualified_name |-> fully_qualified_name, location |-> location]

ProcessedFile(absolute_path, unresolved_references) ==
  [absolute_path |-> absolute_path, unresolved_references |-> unresolved_references]

----------------------------------------------------------------------------
(* references/parser/collector.rs *)

ASSOCIATION_METHOD_NAMES == <<"has_one", "has_many", "belongs_to", "has_and_belongs_to_many">>

ReferenceCollector_new(custom_associations) ==
  [references |-> <<>>, definitions |-> <<>>, current_namespaces |-> <<>>,
   in_superclass |-> FALSE, superclasses |-> <<>>,
   custom_associations |-> custom_associations, panicked |-> FALSE, calls |-> <<>>]

RECURSIVE fetch_const_name(_), fetch_const_const_name(_)
fetch_const_name(node) ==
  IF node.type = "Const" THEN fetch_const_const_name(node)
  ELSE IF node.type = "Cbase" THEN Ok(<<"">>)
  ELSE Err("Metaprogramming")

fetch_const_const_name(node) ==
  IF node.scope.some
  THEN LET parent_namespace == fetch_const_name(node.scope.val)
       IN IF parent_namespace.ok THEN Ok(parent_namespace.val \o <<node.name>>)
          ELSE parent_namespace
  ELSE Ok(<<node.name>>)

fetch_casgn_name(node) ==
  IF node.scope.some
  THEN LET parent_namespace == fetch_const_name(node.scope.val)
       IN IF parent_namespace.ok THEN Ok(parent_namespace.val \o <<node.name>>)
          ELSE parent_namespace
  ELSE Ok(<<node.name>>)

loc_to_range(node) == Rng(node.b[1], node.b[2] - 1, node.e[1], node.e[2])

\* name_components.join("::") behind a leading "::"
get_definition_from(current_nesting, parent_nesting, location) ==
  ParsedDefinition(<<"">> \o Concat(Append(parent_nesting, current_nesting)), location)

get_constant_assignment_definition(node, current_namespaces) ==
  LET name_result == fetch_casgn_name(node)
  IN IF ~name_result.ok THEN None
     ELSE Some(ParsedDefinition(
                 <<"">> \o Concat(Append(current_namespaces, name_result.val)),
                 loc_to_range(node)))

\* inflector_shim::to_class_case(s, singularize = true, acronyms)
to_class_case(s, acronyms) ==
  CASE s = "accounting_firm" -> <<"AccountingFirm">>
    [] s = "companies" -> <<"Company">>
    [] s = "bars" -> <<"Bar">>
    [] s = "foo" -> <<"Foo">>
    [] s = "api_keys" -> IF "API" \in acronyms THEN <<"APIKey">> ELSE <<"ApiKey">>
    [] s = "api_key" -> IF "API" \in acronyms THEN <<"APIKey">> ELSE <<"ApiKey">>
    [] OTHER -> <<s>>

extract_class_name_from_kwargs(kwargs) ==
  LET hits == {i \in DOMAIN kwargs.pairs :
                 /\ kwargs.pairs[i].type = "Pair"
                 /\ kwargs.pairs[i].key.type = "Sym"
                 /\ kwargs.pairs[i].key.name = "class_name"
                 /\ kwargs.pairs[i].value.type = "Str"}
  IN IF hits = {} THEN None
     ELSE Some(kwargs.pairs[CHOOSE i \in hits : \A j \in hits : i <= j].value.value)

get_reference_from_active_record_association(node, current_namespaces, custom_associations) ==
  LET combined_associations == custom_associations \o ASSOCIATION_METHOD_NAMES
      is_association == \E i \in DOMAIN combined_associations :
                           node.method_name = combined_associations[i]
      found == {i \in DOMAIN node.args :
                  /\ node.args[i].type = "Kwargs"
                  /\ extract_class_name_from_kwargs(node.args[i]).some}
      \* the loop keeps the last Kwargs argument that carries a class_name
      from_kwargs == IF found = {} THEN None
                     ELSE extract_class_name_from_kwargs(
                            node.args[CHOOSE i \in found : \A j \in found : j <= i])
      name == IF from_kwargs.some THEN from_kwargs
              ELSE IF node.args # <<>> /\ node.args[1].type = "Sym"
                   THEN Some(to_class_case(node.args[1].name, {}))
                   ELSE None
  IN IF is_association /\ name.some
     THEN Some(UnresolvedReference(name.val, current_namespaces, loc_to_range(node)))
     ELSE None

\* an on_const that takes the namespaces as they stand
on_const_unfiltered(c, node) ==
  LET name_result == fetch_const_const_name(node)
  IN IF ~name_result.ok THEN c
     ELSE
       LET name == name_result.val
           superclasses == IF c.in_superclass
                           THEN Append(c.superclasses,
                                       [name |-> name, namespace_path |-> c.current_namespaces])
                           ELSE c.superclasses
       IN [c EXCEPT !.superclasses = superclasses,
                    !.references = Append(@, UnresolvedReference(name, c.current_namespaces,
                                                                loc_to_range(node)))]

on_const(c, node) ==
  LET name_result == fetch_const_const_name(node)
  IN IF ~name_result.ok THEN c
     ELSE
       LET name == name_result.val
           superclasses == IF c.in_superclass
                           THEN Append(c.superclasses,
                                       [name |-> name, namespace_path |-> c.current_namespaces])
                           ELSE c.superclasses
           matching == {i \in DOMAIN superclasses : superclasses[i].name = name}
           namespace_path ==
             IF matching # {}
             THEN superclasses[CHOOSE i \in matching : \A j \in matching : i <= j].namespace_path
             ELSE SelectSeq(c.current_namespaces,
                            LAMBDA namespace : namespace # name \/ matching # {})
       IN [c EXCEPT !.superclasses = superclasses,
                    !.references = Append(@, UnresolvedReference(name, namespace_path,
                                                                loc_to_range(node)))]

\* the nodes the default visitor descends into
Children(node) ==
  CASE node.type = "Def" -> node.body
    [] node.type = "Kwargs" -> node.pairs
    [] node.type = "Pair" -> <<node.key, node.value>>
    [] OTHER -> <<>>

OptSeq(o) == IF o.some THEN <<o.val>> ELSE <<>>

RECURSIVE visit(_, _), visit_all(_, _)
visit_all(c, nodes) ==
  IF nodes = <<>> THEN c ELSE visit_all(visit(c, Head(nodes)), Tail(nodes))

\* a visitor that emits the reference of the class name before it visits the
\* superclass
on_class_name_first(c, node) ==
  LET namespace_result == fetch_const_name(node.name)
  IN IF ~namespace_result.ok THEN c
     ELSE
       LET namespace == namespace_result.val
           location == loc_to_range(node.name)
           definition == get_definition_from(namespace, c.current_namespaces, location)
           c1 == [c EXCEPT
                    !.definitions = Append(@, definition),
                    !.references = Append(@, UnresolvedReference(
                                      definition.fully_qualified_name,
                                      c.current_namespaces, location))]
           c2 == IF node.superclass.some
                 THEN [visit([c1 EXCEPT !.in_superclass = TRUE], node.superclass.val)
                         EXCEPT !.in_superclass = FALSE]
                 ELSE c1
           c3 == visit_all([c2 EXCEPT !.current_namespaces = Append(@, namespace)], node.body)
       IN [c3 EXCEPT
             !.current_namespaces = SubSeq(@, 1, Len(@) - 1),
             !.superclasses = IF @ = <<>> THEN @ ELSE SubSeq(@, 1, Len(@) - 1)]

on_class(c, node) ==
  LET namespace_result == fetch_const_name(node.name)
  IN IF ~namespace_result.ok THEN c
     ELSE
       LET namespace == namespace_result.val
           c1 == IF node.superclass.some
                 THEN [visit([c EXCEPT !.in_superclass = TRUE], node.superclass.val)
                         EXCEPT !.in_superclass = FALSE]
                 ELSE c
           location == loc_to_range(node.name)
           definition == get_definition_from(namespace, c1.current_namespaces, location)
           c2 == [c1 EXCEPT
                    !.definitions = Append(@, definition),
                    !.references = Append(@, UnresolvedReference(
                                      definition.fully_qualified_name,
                                      c1.current_namespaces, location)),
                    !.current_namespaces = Append(@, namespace)]
           c3 == visit_all(c2, node.body)
       IN [c3 EXCEPT
             !.current_namespaces = SubSeq(@, 1, Len(@) - 1),
             !.superclasses = IF @ = <<>> THEN @ ELSE SubSeq(@, 1, Len(@) - 1)]

on_module(c, node) ==
  LET namespace_result == fetch_const_name(node.name)
  IN IF ~namespace_result.ok THEN [c EXCEPT !.panicked = TRUE]
     ELSE
       LET namespace == namespace_result.val
           location == loc_to_range(node.name)
           definition == get_definition_from(namespace, c.current_namespaces, location)
           c2 == [c EXCEPT
                    !.definitions = Append(@, definition),
                    !.references = Append(@, UnresolvedReference(
                                      definition.fully_qualified_name,
                                      c.current_namespaces, location)),
                    !.current_namespaces = Append(@, namespace)]
           c3 == visit_all(c2, node.body)
       IN [c3 EXCEPT !.current_namespaces = SubSeq(@, 1, Len(@) - 1)]

on_send(c, node) ==
  LET association_reference ==
        get_reference_from_active_record_association(
          node, c.current_namespaces, c.custom_associations)
      c1 == IF association_reference.some
            THEN [c EXCEPT !.references = Append(@, association_reference.val)]
            ELSE c
  IN visit_all(c1, OptSeq(node.recv) \o node.args)

on_casgn(c, node) ==
  LET definition == get_constant_assignment_definition(node, c.current_namespaces)
      c1 == IF definition.some
            THEN [c EXCEPT !.definitions = Append(@, definition.val)]
            ELSE c
  IN visit_all(c1, OptSeq(node.value))

\* history of one handler call: the collector it found, the stack it left and
\* the references it pushed (kept beside the collector's own fields)
Call(node, c, r) ==
  [node |-> node, in_superclass |-> c.in_superclass,
   current_namespaces |-> c.current_namespaces,
   entry |-> c.superclasses, exit |-> r.superclasses,
   emitted |-> SubSeq(r.references, Len(c.references) + 1, Len(r.references))]

\* the handler the visitor calls for a node
dispatch(c, node) ==
  CASE node.type = "Class" -> on_class(c, node)
    [] node.type = "Module" -> on_module(c, node)
    [] node.type = "Const" -> on_const(c, node)
    [] node.type = "Send" -> on_send(c, node)
    [] node.type = "Casgn" -> on_casgn(c, node)
    [] OTHER -> visit_all(c, Children(node))

\* one handler call on the collector `entry`, with its record in the history
\* (the handler's result is bound once, as a value)
recorded(entry, node) ==
  CHOOSE out \in {IF node.type \in {"Class", "Const", "Send"}
                  THEN [exit EXCEPT !.calls = Append(@, Call(node, entry, exit))]
                  ELSE exit : exit \in {dispatch(entry, node)}} : TRUE

visit(c, node) ==
  CHOOSE out \in {IF entry.panicked THEN entry ELSE recorded(entry, node) :
                    entry \in {c}} : TRUE


----------------------------------------------------------------------------
(* parser/namespace_calculator.rs is not part of the sources at hand: the   *)
(* candidates are those the specification gives (section 4.2): for          *)
(* k = len(ns) .. 0, "::" + join(ns[..k] + [name], "::").                   *)

possible_fully_qualified_constants(namespace_path, name) ==
  [i \in 1..(Len(namespace_path) + 1) |->
     <<"">> \o Concat(SubSeq(namespace_path, 1, Len(namespace_path) + 1 - i)) \o name]

----------------------------------------------------------------------------
(* parser/self_reference_filterer.rs *)

\* a loop in which a later definition takes over the keys it shares
RECURSIVE insert_prefixes_overwriting(_, _, _, _)
insert_prefixes_overwriting(map, parts, index, location) ==
  IF index > Len(parts) THEN map
  ELSE LET combined == SubSeq(parts, 1, index)
       IN insert_prefixes_overwriting(
            [k \in DOMAIN map \cup {combined} |-> IF k = combined THEN location ELSE map[k]],
            parts, index + 1, location)

RECURSIVE insert_prefixes(_, _, _, _)
insert_prefixes(map, parts, index, location) ==
  IF index > Len(parts) THEN map
  ELSE LET combined == SubSeq(parts, 1, index)
       IN insert_prefixes(IF combined \in DOMAIN map THEN map
                          ELSE map @@ (combined :> location),
                          parts, index + 1, location)

RECURSIVE definition_to_location_map_from(_, _)
definition_to_location_map_from(map, definitions) ==
  IF definitions = <<>> THEN map
  ELSE definition_to_location_map_from(
         insert_prefixes(map, Head(definitions).fully_qualified_name, 1,
                         Head(definitions).location),
         Tail(definitions))

definition_to_location_map(definitions) ==
  definition_to_location_map_from(EmptyMap, definitions)

\* map.get(constant_name).or(map.get("::" + constant_name))
lookup_location(map, constant_name) ==
  IF constant_name \in DOMAIN map THEN Some(map[constant_name])
  ELSE IF (<<"">> \o constant_name) \in DOMAIN map THEN Some(map[<<"">> \o constant_name])
  ELSE None

reference_is_definition(location, r) ==
  location.start_row = r.location.start_row /\ location.start_col = r.location.start_col

\* a loop that takes the reference for local when it is the definition itself
RECURSIVE should_ignore_when_definition(_, _, _, _)
should_ignore_when_definition(flag, possible_constants, map, r) ==
  IF possible_constants = <<>> THEN flag
  ELSE LET location == lookup_location(map, Head(possible_constants))
       IN should_ignore_when_definition(
            IF location.some THEN reference_is_definition(location.val, r) ELSE flag,
            Tail(possible_constants), map, r)

\* the loop over possible_constants: every candidate found in the map overwrites the flag
RECURSIVE should_ignore_local_reference(_, _, _, _)
should_ignore_local_reference(flag, possible_constants, map, r) ==
  IF possible_constants = <<>> THEN flag
  ELSE LET location == lookup_location(map, Head(possible_constants))
       IN should_ignore_local_reference(
            IF location.some THEN ~reference_is_definition(location.val, r) ELSE flag,
            Tail(possible_constants), map, r)

filter_keeps(map, r) ==
  ~should_ignore_local_reference(
      FALSE, possible_fully_qualified_constants(r.namespace_path, r.name), map, r)

\* a filter that also drops the references of the declarations themselves
filter_dropping_declarations(reference_collector) ==
  LET map == definition_to_location_map(reference_collector.definitions)
  IN SelectSeq(reference_collector.references,
               LAMBDA r : filter_keeps(map, r) /\ Head(r.name) # "")

filter(reference_collector) ==
  LET map == definition_to_location_map(reference_collector.definitions)
  IN SelectSeq(reference_collector.references, LAMBDA r : filter_keeps(map, r))


----------------------------------------------------------------------------
(* Source texts.  A text is an enclosing declaration and the statements in *)
(* its body, one per line; build_ast is the parser.  The statement on line *)
(* `row` starts in column 3 (column 1 at the top level).                   *)

Outers == {"", "class Foo", "module Bar", "class Foo < Bar", "module Foo::Bar"}

Statements == {"Foo", "Bar", "::Foo", "Foo::Bar", "BAR = 1", "BAR", "class Foo; end",
               "class Baz < Foo; end", "belongs_to :foo", "x = 1"}

SourceText(outer, body) == [outer |-> outer, body |-> body]
SyntaxError == [outer |-> "<<<", body |-> <<>>]

ConstAt(scope, name, row, col, len) == Const(scope, name, <<row, col>>, <<row, col + len>>)

StatementNode(text, row, col) ==
  CASE text = "Foo" -> ConstAt(None, "Foo", row, col, 3)
    [] text = "Bar" -> ConstAt(None, "Bar", row, col, 3)
    [] text = "BAR" -> ConstAt(None, "BAR", row, col, 3)
    [] text = "::Foo" -> ConstAt(Some(Cbase), "Foo", row, col, 5)
    [] text = "Foo::Bar" -> ConstAt(Some(ConstAt(None, "Foo", row, col, 3)), "Bar", row, col, 8)
    [] text = "BAR = 1" -> Casgn(None, "BAR", Some(IntLit), <<row, col>>, <<row, col + 7>>)
    [] text = "class Foo; end" -> Class(ConstAt(None, "Foo", row, col + 6, 3), None, <<>>)
    [] text = "class Baz < Foo; end" ->
         Class(ConstAt(None, "Baz", row, col + 6, 3),
               Some(ConstAt(None, "Foo", row, col + 12, 3)), <<>>)
    [] text = "belongs_to :foo" ->
         Send(None, "belongs_to", <<Sym("foo")>>, <<row, col>>, <<row, col + 15>>)
    [] text = "::BAR = 1" ->
         Casgn(Some(Cbase), "BAR", Some(IntLit), <<row, col>>, <<row, col + 9>>)
    [] text = "Foo::BAR = 1" ->
         Casgn(Some(ConstAt(None, "Foo", row, col, 3)), "BAR", Some(IntLit),
               <<row, col>>, <<row, col + 12>>)
    [] text = "class ::Baz; end" ->
         Class(ConstAt(Some(Cbase), "Baz", row, col + 6, 5), None, <<>>)
    [] text = "belongs_to :foo, class_name: 'Bar'" ->
         Send(None, "belongs_to",
              <<Sym("foo"), Kwargs(<<Pair(Sym("class_name"), Str(<<"Bar">>))>>)>>,
              <<row, col>>, <<row, col + 34>>)
    [] text = "belongs_to :foo, class_name: ''" ->
         Send(None, "belongs_to",
              <<Sym("foo"), Kwargs(<<Pair(Sym("class_name"), Str(<<"">>))>>)>>,
              <<row, col>>, <<row, col + 31>>)
    [] text = "class self::Baz < Foo; Bar; end" ->
         Class(ConstAt(Some(Self_), "Baz", row, col + 6, 9),
               Some(ConstAt(None, "Foo", row, col + 18, 3)),
               <<ConstAt(None, "Bar", row, col + 23, 3)>>)
    [] text = "module self::Baz; Bar; end" ->
         Module(ConstAt(Some(Self_), "Baz", row, col + 7, 9),
                <<ConstAt(None, "Bar", row, col + 18, 3)>>)
    [] text = "class Baz; end" -> Class(ConstAt(None, "Baz", row, col + 6, 3), None, <<>>)
    [] text = "class Baz < Bar; end" ->
         Class(ConstAt(None, "Baz", row, col + 6, 3),
               Some(ConstAt(None, "Bar", row, col + 12, 3)), <<>>)
    [] text = "class Baz < Struct.new(Foo, Bar); end" ->
         Class(ConstAt(None, "Baz", row, col + 6, 3),
               Some(Send(Some(ConstAt(None, "Struct", row, col + 12, 6)), "new",
                         <<ConstAt(None, "Foo", row, col + 23, 3),
                           ConstAt(None, "Bar", row, col + 28, 3)>>,
                         <<row, col + 12>>, <<row, col + 32>>)),
               <<>>)
    [] text = "module Baz; class Bar; Foo; Bar; end; end" ->
         Module(ConstAt(None, "Baz", row, col + 7, 3),
                <<Class(ConstAt(None, "Bar", row, col + 18, 3), None,
                        <<ConstAt(None, "Foo", row, col + 23, 3),
                          ConstAt(None, "Bar", row, col + 28, 3)>>)>>)
    [] text = "has_many :api_keys" ->
         Send(None, "has_many", <<Sym("api_keys")>>,
              <<row, col>>, <<row, col + 18>>)
    [] text = "has_many :companies" ->
         Send(None, "has_many", <<Sym("companies")>>,
              <<row, col>>, <<row, col + 19>>)
    [] text = "has_lots :companies" ->
         Send(None, "has_lots", <<Sym("companies")>>,
              <<row, col>>, <<row, col + 19>>)
    [] text = "has_one :foo, class_name: 'Foo::Bar'" ->
         Send(None, "has_one", <<Sym("foo"), Kwargs(<<Pair(Sym("class_name"), Str(<<"Foo", "Bar">>))>>)>>,
              <<row, col>>, <<row, col + 36>>)
    [] text = "has_one class_name: 'Bar'" ->
         Send(None, "has_one", <<Kwargs(<<Pair(Sym("class_name"), Str(<<"Bar">>))>>)>>,
              <<row, col>>, <<row, col + 25>>)
    [] text = "belongs_to" ->
         Send(None, "belongs_to", <<>>,
              <<row, col>>, <<row, col + 10>>)
    [] text = "has_many 'bars'" ->
         Send(None, "has_many", <<Str(<<"bars">>)>>,
              <<row, col>>, <<row, col + 15>>)
    [] text = "validates :foo" ->
         Send(None, "validates", <<Sym("foo")>>,
              <<row, col>>, <<row, col + 14>>)
    [] text = "belongs_to :api_key, class_name: Bar" ->
         Send(None, "belongs_to",
              <<Sym("api_key"),
                Kwargs(<<Pair(Sym("class_name"), ConstAt(None, "Bar", row, col + 33, 3))>>)>>,
              <<row, col>>, <<row, col + 36>>)
    [] OTHER -> Lvar

BodyNodes(body, col) == [i \in DOMAIN body |-> StatementNode(body[i], i + 1, col)]

\* statements joined by "\n", the first on line 1
Lines(body) == [outer |-> "\n", body |-> body]

\* a template: markup and <% %> tags
Template(chunks) == [outer |-> "erb", body |-> chunks]

\* the parser: None when the text has no AST
build_ast(contents) ==
  CASE contents.outer = "" -> Some(Def(BodyNodes(contents.body, 1)))
    [] contents.outer = "class Foo" ->
         Some(Class(ConstAt(None, "Foo", 1, 7, 3), None, BodyNodes(contents.body, 3)))
    [] contents.outer = "class Foo < Bar" ->
         Some(Class(ConstAt(None, "Foo", 1, 7, 3), Some(ConstAt(None, "Bar", 1, 13, 3)),
                    BodyNodes(contents.body, 3)))
    [] contents.outer = "module Bar" ->
         Some(Module(ConstAt(None, "Bar", 1, 8, 3), BodyNodes(contents.body, 3)))
    [] contents.outer = "module Foo::Bar" ->
         Some(Module(ConstAt(Some(ConstAt(None, "Foo", 1, 8, 3)), "Bar", 1, 8, 8),
                     BodyNodes(contents.body, 3)))
    [] contents.outer = "class ::Foo" ->
         Some(Class(ConstAt(Some(Cbase), "Foo", 1, 7, 5), None, BodyNodes(contents.body, 3)))
    [] contents.outer = "module ::Bar" ->
         Some(Module(ConstAt(Some(Cbase), "Bar", 1, 8, 5), BodyNodes(contents.body, 3)))
    [] contents.outer = "class self::Foo" ->
         Some(Class(ConstAt(Some(Self_), "Foo", 1, 7, 9), None, BodyNodes(contents.body, 3)))
    [] contents.outer = "module self::Foo" ->
         Some(Module(ConstAt(Some(Self_), "Foo", 1, 8, 9), BodyNodes(contents.body, 3)))
    [] contents.outer = "\n" /\ contents.body # <<>> ->
         Some(Def([i \in DOMAIN contents.body |-> StatementNode(contents.body[i], i, 1)]))
    [] OTHER -> None

----------------------------------------------------------------------------
(* references/parser/processor.rs *)

Unreadable == [outer |-> "EACCES", body |-> <<>>]

ServicesFoo == <<"r", "packs", "foo", "app", "services">>
ServicesBar == <<"r", "packs", "bar", "app", "services">>
ModelsBar == <<"r", "packs", "bar", "app", "models">>
ConcernsBar == <<"r", "packs", "bar", "app", "models", "concerns">>
CompanyData == <<"r", "app", "company_data">>

\* Configuration.autoload_paths: autoload root -> default namespace
autoload_paths ==
  (ServicesFoo :> <<"">>) @@ (ServicesBar :> <<"">>) @@ (ModelsBar :> <<"">>) @@
  (ConcernsBar :> <<"">>) @@ (CompanyData :> <<"", "Company">>)

Configuration(cache_enabled, include_reference_is_definition) ==
  [cache_enabled |-> cache_enabled,
   include_reference_is_definition |-> include_reference_is_definition,
   custom_associations |-> <<>>,
   ruby_extensions |-> <<"rb", "rake", "builder", "gemspec", "ru">>,
   ruby_special_files |-> <<"Gemfile", "Rakefile">>,
   absolute_root |-> absolute_root,
   acronyms |-> {},
   autoload_paths |-> autoload_paths]

\* a dispatch on the extension alone
get_file_type_by_extension(path, configuration) ==
  IF path.ext = "erb" THEN Some("Erb")
  ELSE IF \E i \in DOMAIN configuration.ruby_extensions :
            path.ext = configuration.ruby_extensions[i]
       THEN Some("Ruby")
       ELSE None

get_file_type(path, configuration) ==
  IF path.ext = "erb" THEN Some("Erb")
  ELSE IF \/ \E i \in DOMAIN configuration.ruby_extensions :
               path.ext = configuration.ruby_extensions[i]
          \/ \E i \in DOMAIN configuration.ruby_special_files :
               /\ path.ext = ""
               /\ path.comps # <<>>
               /\ path.comps[Len(path.comps)] = configuration.ruby_special_files[i]
       THEN Some("Ruby")
       ELSE None

\* capture group 1 of ERB_REGEX on one chunk of a template
erb_capture(chunk) ==
  CASE chunk = "<%= Foo %>" -> Some("Foo")
    [] chunk = "<% Bar %>" -> Some("Bar")
    [] chunk = "<%- Foo::Bar -%>" -> Some("Foo::Bar")
    [] OTHER -> None

\* the captures of the text, joined by "\n"; only a template has any
convert_erb_to_ruby_without_sourcemaps(contents) ==
  IF contents.outer # "erb" THEN Lines(<<>>)
  ELSE LET tags == SelectSeq(contents.body, LAMBDA chunk : erb_capture(chunk).some)
       IN Lines([i \in DOMAIN tags |-> erb_capture(tags[i]).val])

collect(contents, configuration) ==
  visit(ReferenceCollector_new(configuration.custom_associations), build_ast(contents).val)

process_from_contents(contents, path, configuration) ==
  IF ~build_ast(contents).some THEN Ok(ProcessedFile(path, <<>>))
  ELSE LET collector == collect(contents, configuration)
       IN IF collector.panicked THEN Err("panic")
          ELSE Ok(ProcessedFile(path,
                    IF configuration.include_reference_is_definition
                    THEN collector.references
                    ELSE filter(collector)))

\* `contents` is what the file system holds at `path`
process_file(path, contents, configuration) ==
  LET file_type == get_file_type(path, configuration)
  IN IF ~file_type.some THEN Ok(ProcessedFile(path, <<>>))
     ELSE IF contents = Unreadable THEN Err("Failed to read contents")
     ELSE process_from_contents(
            IF file_type.val = "Erb" THEN convert_erb_to_ruby_without_sourcemaps(contents)
            ELSE contents,
            path, configuration)


----------------------------------------------------------------------------
(* zeitwerk/mod.rs: the constants inferred from the autoload roots *)

\* a glob that does not descend: root/*.rb
glob_rb_flat(root) ==
  {f \in TreeFiles : f.ext = "rb" /\ IsPrefix(root, f.comps) /\ Len(f.comps) = Len(root) + 1}

\* glob::glob(root/**/*.rb)
glob_rb(root) ==
  {f \in TreeFiles : f.ext = "rb" /\ IsPrefix(root, f.comps) /\ Len(f.comps) > Len(root)}

\* inflector_shim::camelize on one path segment (the shim is not part of the
\* sources at hand; these are the values the resolver tests expect)
camelize_segment(segment, acronyms) ==
  CASE segment = "foo" -> "Foo"
    [] segment = "bar" -> "Bar"
    [] segment = "some_concern" -> "SomeConcern"
    [] segment = "widget" -> "Widget"
    [] segment = "concerns" -> "Concerns"
    [] OTHER -> segment

camelize(relative_path, acronyms) ==
  [i \in DOMAIN relative_path |-> camelize_segment(relative_path[i], acronyms)]

ConstantDefinition(fully_qualified_name, absolute_path_of_definition) ==
  [fully_qualified_name |-> fully_qualified_name,
   absolute_path_of_definition |-> absolute_path_of_definition]

\* an inference that leaves the default namespace out
inferred_constant_from_file_unrooted(absolute_path, absolute_autoload_path, acronyms, default_namespace) ==
  LET relative_path == SubSeq(absolute_path.comps, Len(absolute_autoload_path) + 1,
                              Len(absolute_path.comps))
  IN ConstantDefinition(camelize(relative_path, acronyms), absolute_path)

inferred_constant_from_file(absolute_path, absolute_autoload_path, acronyms, default_namespace) ==
  LET relative_path == SubSeq(absolute_path.comps, Len(absolute_autoload_path) + 1,
                              Len(absolute_path.comps))
      camelized_path == camelize(relative_path, acronyms)
  IN ConstantDefinition(default_namespace \o camelized_path, absolute_path)

\* a loop that keeps the root a file was first seen under
RECURSIVE file_to_first_path(_, _)
file_to_first_path(map, roots) ==
  IF roots = <<>> THEN map
  ELSE LET autoload_path == Head(roots)
           globbed == glob_rb(autoload_path)
           updated == [f \in DOMAIN map \cup globbed |->
                         IF f \in DOMAIN map THEN map[f] ELSE autoload_path]
       IN file_to_first_path(updated, Tail(roots))

\* the loop over autoload_paths_to_their_globbed_files, taken in the order `roots`
RECURSIVE file_to_longest_path(_, _)
file_to_longest_path(map, roots) ==
  IF roots = <<>> THEN map
  ELSE LET autoload_path == Head(roots)
           globbed == glob_rb(autoload_path)
           updated == [f \in DOMAIN map \cup globbed |->
                         IF f \notin globbed THEN map[f]
                         ELSE IF f \in DOMAIN map /\ ~(Len(autoload_path) > Len(map[f]))
                              THEN map[f]
                              ELSE autoload_path]
       IN file_to_longest_path(updated, Tail(roots))

\* an inference that gives every root the default namespace ""
inferred_constants_without_namespaces(configuration, roots, defined_files) ==
  LET longest == file_to_longest_path(EmptyMap, roots)
      entries == SelectSeq(defined_files, LAMBDA f : f \in DOMAIN longest)
  IN [i \in DOMAIN entries |->
        inferred_constant_from_file(entries[i], longest[entries[i]], configuration.acronyms, <<"">>)]

\* `roots` and `defined_files` are the orders in which the two HashMaps iterate
inferred_constants(configuration, roots, defined_files) ==
  LET longest == file_to_longest_path(EmptyMap, roots)
      entries == SelectSeq(defined_files, LAMBDA f : f \in DOMAIN longest)
  IN [i \in DOMAIN entries |->
        inferred_constant_from_file(entries[i], longest[entries[i]], configuration.acronyms,
                                    configuration.autoload_paths[longest[entries[i]]])]

\* the iteration orders a HashMap may take (two that reverse every pair)
RootOrders ==
  {<<ServicesFoo, ServicesBar, ModelsBar, ConcernsBar, CompanyData>>,
   <<CompanyData, ConcernsBar, ModelsBar, ServicesBar, ServicesFoo>>}

FileOrders ==
  {<<FooRb, FooBarRb, BarRb, SomeConcernRb, ModelsFooRb, WidgetRb>>,
   <<WidgetRb, ModelsFooRb, SomeConcernRb, BarRb, FooBarRb, FooRb>>}

----------------------------------------------------------------------------
(* zeitwerk/constant_resolver.rs is not part of the sources at hand: the    *)
(* resolver is the one the specification gives (section 4.5).               *)

\* fully_qualified_name -> the definitions of that name, in the order of `constants`
ZeitwerkConstantResolver_create(constants) ==
  [name \in {constants[i].fully_qualified_name : i \in DOMAIN constants} |->
     SelectSeq(constants, LAMBDA d : d.fully_qualified_name = name)]

starts_with_colons(name) == Head(name) = ""

\* candidate k of the nesting lookup, most specific first (i = 1 is k = len(stack))
resolve_candidate(name, namespace_path, i) ==
  <<"">> \o Concat(SubSeq(namespace_path, 1, Len(namespace_path) + 1 - i)) \o name

resolve(resolver, name, namespace_path) ==
  IF starts_with_colons(name)
  THEN IF name \in DOMAIN resolver THEN Some(resolver[name]) ELSE None
  ELSE LET hits == {i \in 1..(Len(namespace_path) + 1) :
                      resolve_candidate(name, namespace_path, i) \in DOMAIN resolver}
       IN IF hits = {} THEN None
          ELSE Some(resolver[resolve_candidate(name, namespace_path,
                                               CHOOSE i \in hits : \A j \in hits : i <= j)])

----------------------------------------------------------------------------
(* reference.rs *)

\* a strip_prefix that hands a path outside the base back whole
strip_prefix_lenient(comps, base) ==
  Ok(IF IsPrefix(base, comps) THEN SubSeq(comps, Len(base) + 1, Len(comps)) ELSE comps)

strip_prefix(comps, base) ==
  IF IsPrefix(base, comps) THEN Ok(SubSeq(comps, Len(base) + 1, Len(comps)))
  ELSE Err("expecting strip_prefix")

\* common_test.rs, PackPath: the pack a file lies in
find_pack_name(path) ==
  IF Len(path.comps) >= 3 /\ path.comps[2] = "packs" THEN path.comps[3] ELSE "."

extra_reference_fields_fn(referencing_file_path, defining_file_path) ==
  IF defining_file_path.some
  THEN ("referencing_pack_name" :> find_pack_name(referencing_file_path)) @@
       ("defining_pack_name" :> find_pack_name(defining_file_path.val))
  ELSE ("referencing_pack_name" :> find_pack_name(referencing_file_path))

Reference(constant_name, relative_defining_file, relative_referencing_file, source_location, extra_fields) ==
  [constant_name |-> constant_name, relative_defining_file |-> relative_defining_file,
   relative_referencing_file |-> relative_referencing_file,
   source_location |-> source_location, extra_fields |-> extra_fields]

\* a builder that stops at the first definition the resolver returns
from_unresolved_reference_first(configuration, resolver, unresolved_reference, referencing_file_path) ==
  LET loc == unresolved_reference.location
      relative_referencing == strip_prefix(referencing_file_path.comps,
                                           configuration.absolute_root)
      maybe_constant_definition ==
        resolve(resolver, unresolved_reference.name, unresolved_reference.namespace_path)
      constant == Head(maybe_constant_definition.val)
      stripped == strip_prefix(constant.absolute_path_of_definition.comps,
                               configuration.absolute_root)
  IN IF ~relative_referencing.ok THEN relative_referencing
     ELSE IF maybe_constant_definition.some
     THEN IF ~stripped.ok THEN stripped
          ELSE Ok(<<Reference(constant.fully_qualified_name,
                              Some(Path(stripped.val, constant.absolute_path_of_definition.ext)),
                              Path(relative_referencing.val, referencing_file_path.ext),
                              [line |-> loc.start_row, column |-> loc.start_col],
                              extra_reference_fields_fn(
                                referencing_file_path,
                                Some(constant.absolute_path_of_definition)))>>)
     ELSE Ok(<<Reference(unresolved_reference.name, None,
                         Path(relative_referencing.val, referencing_file_path.ext),
                         [line |-> loc.start_row, column |-> loc.start_col],
                         extra_reference_fields_fn(referencing_file_path, None))>>)

from_unresolved_reference(configuration, resolver, unresolved_reference, referencing_file_path) ==
  LET loc == unresolved_reference.location
      source_location == [line |-> loc.start_row, column |-> loc.start_col]
      relative_referencing == strip_prefix(referencing_file_path.comps, configuration.absolute_root)
      maybe_constant_definition ==
        resolve(resolver, unresolved_reference.name, unresolved_reference.namespace_path)
  IN IF ~relative_referencing.ok THEN relative_referencing
     ELSE LET relative_referencing_file ==
                Path(relative_referencing.val, referencing_file_path.ext)
          IN IF maybe_constant_definition.some
             THEN LET constant_definitions == maybe_constant_definition.val
                      stripped == [i \in DOMAIN constant_definitions |->
                                     strip_prefix(
                                       constant_definitions[i].absolute_path_of_definition.comps,
                                       configuration.absolute_root)]
                  IN IF \E i \in DOMAIN stripped : ~stripped[i].ok
                     THEN Err("expecting strip_prefix")
                     ELSE Ok([i \in DOMAIN constant_definitions |->
                                Reference(
                                  constant_definitions[i].fully_qualified_name,
                                  Some(Path(stripped[i].val,
                                            constant_definitions[i].absolute_path_of_definition.ext)),
                                  relative_referencing_file,
                                  source_location,
                                  extra_reference_fields_fn(
                                    referencing_file_path,
                                    Some(constant_definitions[i].absolute_path_of_definition)))])
             ELSE Ok(<<Reference(unresolved_reference.name, None, relative_referencing_file,
                                 source_location,
                                 extra_reference_fields_fn(referencing_file_path, None))>>)

\* String::cmp on "::"-joined names: byte order.  The segments are identifiers
\* without digits, so the order is the lexicographic order of the segment
\* sequences, the segments taken in byte order.
SegmentOrder ==
  <<"", "BAR", "Bar", "Baz", "Company", "Concerns", "Foo", "SomeConcern", "Widget">>

SegmentRank(segment) == CHOOSE i \in DOMAIN SegmentOrder : SegmentOrder[i] = segment

cmp_int(a, b) == IF a < b THEN "Less" ELSE IF a > b THEN "Greater" ELSE "Equal"

RECURSIVE cmp_string(_, _)
cmp_string(a, b) ==
  IF a = <<>> /\ b = <<>> THEN "Equal"
  ELSE IF a = <<>> THEN "Less"
  ELSE IF b = <<>> THEN "Greater"
  ELSE IF Head(a) = Head(b) THEN cmp_string(Tail(a), Tail(b))
  ELSE cmp_int(SegmentRank(Head(a)), SegmentRank(Head(b)))

\* String::cmp on the relative paths of the tree: their byte order
PathOrder ==
  <<Path(<<"app", "company_data", "widget">>, "rb"),
    Path(<<"packs", "bar", "app", "models", "concerns", "some_concern">>, "rb"),
    Path(<<"packs", "bar", "app", "models", "foo">>, "rb"),
    Path(<<"packs", "bar", "app", "services", "bar">>, "rb"),
    Path(<<"packs", "foo", "app", "services", "foo">>, "rb"),
    Path(<<"packs", "foo", "app", "services", "foo", "bar">>, "rb")>>

PathRank(path) == CHOOSE i \in DOMAIN PathOrder : PathOrder[i] = path

cmp_path(a, b) == cmp_int(PathRank(a), PathRank(b))

\* Option<&String>::cmp: None before Some
cmp_option_path(a, b) ==
  IF ~a.some /\ ~b.some THEN "Equal"
  ELSE IF ~a.some THEN "Less"
  ELSE IF ~b.some THEN "Greater"
  ELSE cmp_path(a.val, b.val)

then_with(first, second) == IF first = "Equal" THEN second ELSE first

\* an order that does not look at the defining file
cmp_ignoring_defining_file(self, other) ==
  then_with(cmp_string(self.constant_name, other.constant_name),
  then_with(cmp_path(self.relative_referencing_file, other.relative_referencing_file),
  then_with(cmp_int(self.source_location.line, other.source_location.line),
  then_with(cmp_int(self.source_location.column, other.source_location.column),
            cmp_int(Cardinality(DOMAIN self.extra_fields),
                    Cardinality(DOMAIN other.extra_fields))))))

\* impl Ord for Reference
cmp(self, other) ==
  then_with(cmp_string(self.constant_name, other.constant_name),
  then_with(cmp_option_path(self.relative_defining_file, other.relative_defining_file),
  then_with(cmp_path(self.relative_referencing_file, other.relative_referencing_file),
  then_with(cmp_int(self.source_location.line, other.source_location.line),
  then_with(cmp_int(self.source_location.column, other.source_location.column),
            cmp_int(Cardinality(DOMAIN self.extra_fields),
                    Cardinality(DOMAIN other.extra_fields)))))))

\* Vec::sort: the stable sort by cmp
RECURSIVE insert_sorted(_, _)
insert_sorted(sorted, x) ==
  IF sorted = <<>> THEN <<x>>
  ELSE IF cmp(x, Head(sorted)) = "Less" THEN <<x>> \o sorted
  ELSE <<Head(sorted)>> \o insert_sorted(Tail(sorted), x)

RECURSIVE sort(_)
sort(v) ==
  IF v = <<>> THEN <<>>
  ELSE insert_sorted(sort(SubSeq(v, 1, Len(v) - 1)), v[Len(v)])

\* the body of the try_fold closure: one ProcessedFile appended to an accumulator
RECURSIVE fold_references(_, _, _, _, _)
fold_references(acc, configuration, resolver, unresolved_references, absolute_path) ==
  IF unresolved_references = <<>> THEN Ok(acc)
  ELSE LET new_references ==
             from_unresolved_reference(configuration, resolver, Head(unresolved_references),
                                       absolute_path)
       IN IF ~new_references.ok THEN new_references
          ELSE fold_references(acc \o new_references.val, configuration, resolver,
                               Tail(unresolved_references), absolute_path)

fold_processed_file(acc, configuration, resolver, processed_file) ==
  fold_references(acc, configuration, resolver, processed_file.unresolved_references,
                  processed_file.absolute_path)


----------------------------------------------------------------------------
(* serde_json: the cache entry as a JSON document and back *)

JStr(s) == [j |-> "str", v |-> s]
JNum(n) == [j |-> "num", v |-> n]
JArr(a) == [j |-> "arr", v |-> a]
JObj(f) == [j |-> "obj", v |-> f]

CacheEntry(file_contents_digest, processed_file) ==
  [file_contents_digest |-> file_contents_digest, processed_file |-> processed_file]

ser_Range(r) ==
  JObj([start_row |-> JNum(r.start_row), start_col |-> JNum(r.start_col),
        end_row |-> JNum(r.end_row), end_col |-> JNum(r.end_col)])

ser_UnresolvedReference(u) ==
  JObj([name |-> JStr(u.name),
        namespace_path |-> JArr([i \in DOMAIN u.namespace_path |-> JStr(u.namespace_path[i])]),
        location |-> ser_Range(u.location)])

\* a serializer that loses the references
ser_ProcessedFile_dropping(pf) ==
  JObj([absolute_path |-> JStr(pf.absolute_path), unresolved_references |-> JArr(<<>>)])

ser_ProcessedFile(pf) ==
  JObj([absolute_path |-> JStr(pf.absolute_path),
        unresolved_references |->
          JArr([i \in DOMAIN pf.unresolved_references |->
                  ser_UnresolvedReference(pf.unresolved_references[i])])])

\* serde_json::to_string(&cache_entry)
to_string(cache_entry) ==
  JObj([file_contents_digest |-> JStr(cache_entry.file_contents_digest),
        processed_file |-> ser_ProcessedFile(cache_entry.processed_file)])

has_fields(j, fields) == j.j = "obj" /\ fields \subseteq DOMAIN j.v

is_string(j) == j.j = "str"
is_usize(j) == j.j = "num" /\ j.v >= 0

is_Range(j) ==
  /\ has_fields(j, {"start_row", "start_col", "end_row", "end_col"})
  /\ is_usize(j.v.start_row) /\ is_usize(j.v.start_col)
  /\ is_usize(j.v.end_row) /\ is_usize(j.v.end_col)

de_Range(j) == Rng(j.v.start_row.v, j.v.start_col.v, j.v.end_row.v, j.v.end_col.v)

is_UnresolvedReference(j) ==
  /\ has_fields(j, {"name", "namespace_path", "location"})
  /\ is_string(j.v.name)
  /\ j.v.namespace_path.j = "arr"
  /\ \A i \in DOMAIN j.v.namespace_path.v : is_string(j.v.namespace_path.v[i])
  /\ is_Range(j.v.location)

\* a deserializer that loses the namespace path
de_UnresolvedReference_flat(j) ==
  UnresolvedReference(j.v.name.v, <<>>, de_Range(j.v.location))

de_UnresolvedReference(j) ==
  UnresolvedReference(j.v.name.v,
                      [i \in DOMAIN j.v.namespace_path.v |-> j.v.namespace_path.v[i].v],
                      de_Range(j.v.location))

is_ProcessedFile(j) ==
  /\ has_fields(j, {"absolute_path", "unresolved_references"})
  /\ is_string(j.v.absolute_path)
  /\ j.v.unresolved_references.j = "arr"
  /\ \A i \in DOMAIN j.v.unresolved_references.v :
       is_UnresolvedReference(j.v.unresolved_references.v[i])

\* a deserialisation that leaves absolute_path at its default
de_ProcessedFile_pathless(j) ==
  ProcessedFile(Path(<<>>, ""),
                [i \in DOMAIN j.v.unresolved_references.v |->
                   de_UnresolvedReference(j.v.unresolved_references.v[i])])

de_ProcessedFile(j) ==
  ProcessedFile(j.v.absolute_path.v,
                [i \in DOMAIN j.v.unresolved_references.v |->
                   de_UnresolvedReference(j.v.unresolved_references.v[i])])

\* bytes of a file on disk
Absent == [kind |-> "absent"]
Raw(text) == [kind |-> "raw", text |-> text]
JsonDoc(doc) == [kind |-> "json", doc |-> doc]

\* serde_json::from_slice::<CacheEntry>: unknown fields are skipped, a missing
\* or ill-typed field is an error, and so are bytes that are not JSON
from_slice(bytes) ==
  IF bytes.kind # "json" THEN Err("Failed to deserialize CacheEntry")
  ELSE IF /\ has_fields(bytes.doc, {"file_contents_digest", "processed_file"})
          /\ is_string(bytes.doc.v.file_contents_digest)
          /\ is_ProcessedFile(bytes.doc.v.processed_file)
       THEN Ok(CacheEntry(bytes.doc.v.file_contents_digest.v,
                          de_ProcessedFile(bytes.doc.v.processed_file)))
       ELSE Err("Failed to deserialize CacheEntry")

----------------------------------------------------------------------------
(* cache/mod.rs: the key of a cache entry *)

\* contents the included files can have in the runs of the driver
ContentsA == SourceText("class Foo", <<"Bar", "BAR = 1", "BAR">>)
ContentsB == SourceText("", <<"Foo", "Foo::Bar">>)
ContentsUniverse == {ContentsA, ContentsB}

\* format!("{:x}", md5::compute(path)): hexadecimal digits (a table standing
\* for the digest; both included paths fall into the same shard)
md5_path(filepath) ==
  CASE filepath = FooRb -> <<"3", "f", "a", "0">>
    [] filepath = BarRb -> <<"3", "f", "b", "1">>
    [] OTHER -> <<"0", "0", "0", "0">>

\* format!("{:x}", md5::compute(contents)) (a table without collisions)
md5_contents(contents) ==
  CASE contents = ContentsA -> "9e107d9d"
    [] contents = ContentsB -> "e4d909c2"
    [] OTHER -> "d41d8cd9"

ShardLen == 2

cache_file_path_from_digest(cache_directory, file_name_digest) ==
  [dir |-> cache_directory, shard |-> SubSeq(file_name_digest, 1, ShardLen),
   name |-> SubSeq(file_name_digest, ShardLen + 1, Len(file_name_digest))]

cache_dir == <<"tmp", "cache", "ruby-references">>

file_content_digest(contents) ==
  IF contents = Unreadable THEN Err("Failed to open file")
  ELSE Ok(md5_contents(contents))

EmptyCacheEntry(filepath, file_contents_digest, file_name_digest, cache_file_path) ==
  [filepath |-> filepath, file_contents_digest |-> file_contents_digest,
   file_name_digest |-> file_name_digest, cache_file_path |-> cache_file_path]

EmptyCacheEntry_default == EmptyCacheEntry(Path(<<>>, ""), "", <<>>, [dir |-> <<>>, shard |-> <<>>, name |-> <<>>])

\* EmptyCacheEntry::new; `contents` is what the file system holds at filepath
EmptyCacheEntry_new(cache_directory, filepath, contents) ==
  LET file_name_digest == md5_path(filepath)
      cache_file_path == cache_file_path_from_digest(cache_directory, file_name_digest)
      file_contents_digest == file_content_digest(contents)
  IN IF ~file_contents_digest.ok THEN Err("Failed to create cache entry")
     ELSE Ok(EmptyCacheEntry(filepath, file_contents_digest.val, file_name_digest,
                             cache_file_path))

CachePath(filepath) == cache_file_path_from_digest(cache_dir, md5_path(filepath))
CachePaths == {CachePath(p) : p \in included_files}
Shards == {cp.shard : cp \in CachePaths}

----------------------------------------------------------------------------
(* cache/cached_file.rs and cache/cached_noop.rs *)

Processed(processed_file) == [kind |-> "Processed", processed_file |-> processed_file]
Miss(empty_cache_entry) == [kind |-> "Miss", empty_cache_entry |-> empty_cache_entry]

\* read_json_file on the bytes at the cache path
read_json_file(bytes) ==
  IF bytes.kind = "absent" THEN Err("Failed to open file") ELSE from_slice(bytes)

\* a from_empty that hands the read error on
from_empty_propagating(bytes) ==
  IF bytes.kind # "absent"
  THEN IF read_json_file(bytes).ok THEN Ok(Some(read_json_file(bytes).val))
       ELSE read_json_file(bytes)
  ELSE Ok(None)

\* CacheEntry::from_empty
from_empty(bytes) ==
  IF bytes.kind # "absent"
  THEN IF read_json_file(bytes).ok THEN Ok(Some(read_json_file(bytes).val)) ELSE Ok(None)
  ELSE Ok(None)

\* a comparison that takes every stored entry for current
file_digests_match_always(cache_entry, empty_cache_entry) == TRUE

\* CachedFile::get, its comparison of the stored digest with the current one
file_digests_match(cache_entry, empty_cache_entry) ==
  cache_entry.file_contents_digest = empty_cache_entry.file_contents_digest

\* a get that hands out whatever entry it can read, and the read error if not
CachedFile_get_trusting(disk, path, contents) ==
  LET empty_cache_entry == EmptyCacheEntry_new(cache_dir, path, contents)
  IN IF ~empty_cache_entry.ok THEN empty_cache_entry
     ELSE LET cache_entry == from_empty_propagating(disk[empty_cache_entry.val.cache_file_path])
          IN IF ~cache_entry.ok THEN cache_entry
             ELSE IF cache_entry.val.some
                  THEN Ok(Processed(cache_entry.val.val.processed_file))
                  ELSE Ok(Miss(empty_cache_entry.val))

\* CachedFile::get; `contents` and `disk` are what the file system holds
CachedFile_get(disk, path, contents) ==
  LET empty_cache_entry == EmptyCacheEntry_new(cache_dir, path, contents)
  IN IF ~empty_cache_entry.ok THEN empty_cache_entry
     ELSE LET cache_entry == from_empty(disk[empty_cache_entry.val.cache_file_path])
          IN IF ~cache_entry.ok THEN cache_entry
             ELSE IF cache_entry.val.some
                  THEN IF ~file_digests_match(cache_entry.val.val, empty_cache_entry.val)
                       THEN Ok(Miss(empty_cache_entry.val))
                       ELSE Ok(Processed(cache_entry.val.val.processed_file))
                  ELSE Ok(Miss(empty_cache_entry.val))

\* NoopCache::get
NoopCache_get(path) == Ok(Miss(EmptyCacheEntry_default))

\* NoopCache::write: nothing is done with either argument
NoopCache_write(empty_cache_entry, processed_file) == Ok(<<>>)

\* a get_cache that hands out the file cache whatever `enabled` says
Cache_get_enabled(configuration, disk, path, contents) == CachedFile_get(disk, path, contents)

\* Cache::get of the cache that Configuration::get_cache hands out
Cache_get(configuration, disk, path, contents) ==
  IF configuration.cache_enabled THEN CachedFile_get(disk, path, contents)
  ELSE NoopCache_get(path)

\* tokio::fs::File::create: creates or truncates; needs the parent directory,
\* and a writable one unless the file is already there
can_create(shard_state, bytes) ==
  shard_state = "dir" \/ (shard_state = "ro" /\ bytes.kind # "absent")

\* a mkdir that fails on a directory that is already there
can_create_dir_exclusive(root_state, shard_state) ==
  shard_state = "absent" /\ root_state # "ro"

\* tokio::fs::create_dir_all(parent)
can_create_dir_all(root_state, shard_state) ==
  shard_state # "absent" \/ root_state # "ro"


----------------------------------------------------------------------------
(* The driver: parser/mod.rs parse and from_cache_or_process, one task per  *)
(* included file, and reference.rs all_references on top of it.              *)

fsVars == <<files, cacheRoot, shardDir, cacheFiles>>
taskVars == <<taskPc, taskKey, taskPf, completed>>
pureVars == <<input, output>>

Init ==
  /\ files = [p \in included_files |-> IF p = FooRb THEN ContentsA ELSE ContentsB]
  /\ cacheRoot \in {"absent", "dir"}
  /\ shardDir = [s \in Shards |-> "absent"]
  /\ cacheFiles = [cp \in CachePaths |-> Absent]
  /\ config = Configuration(TRUE, FALSE)
  /\ run = 0
  /\ envSteps = 0
  /\ parsePc = "idle"
  /\ taskPc = [p \in included_files |-> "none"]
  /\ taskKey = [p \in included_files |-> None]
  /\ taskPf = [p \in included_files |-> None]
  /\ completed = <<>>
  /\ processed_files = <<>>
  /\ results = <<>>
  /\ getLog = [p \in included_files |-> None]
  /\ stored = [p \in included_files |-> None]
  /\ input = None
  /\ output = None

\* what all_references leaves behind when it returns `value`
RunRecord(value) ==
  [config |-> config, files |-> files, env |-> envSteps,
   disk |-> [p \in included_files |->
               IF getLog[p].some THEN getLog[p].val.bytes ELSE cacheFiles[CachePath(p)]],
   hits |-> {p \in included_files :
               /\ getLog[p].some
               /\ getLog[p].val.result.ok
               /\ getLog[p].val.result.val.kind = "Processed"},
   failed |-> {p \in included_files : taskPf[p].some /\ ~taskPf[p].val.ok},
   value |-> value]

\* the record of the run before the current one: what a caller can still
\* compare the next result with, its list sorted
Sorted(record) ==
  [record EXCEPT !.value = IF record.value.ok THEN Ok(sort(record.value.val)) ELSE @,
                 !.disk = [p \in included_files |-> Absent],
                 !.failed = {}]

\* all_references is called: parse spawns one task per included file.
\* Configuration::get_cache builds the future of create_cache_dir_idempotently
\* and drops it without awaiting it, so the cache directory is left as it is.
StartRun(cache_enabled, include_reference_is_definition) ==
  /\ parsePc = "idle"
  /\ run < MaxRuns
  /\ run' = run + 1
  /\ config' = Configuration(cache_enabled, include_reference_is_definition)
  /\ parsePc' = "running"
  /\ taskPc' = [p \in included_files |-> "spawned"]
  /\ taskKey' = [p \in included_files |-> None]
  /\ taskPf' = [p \in included_files |-> None]
  /\ completed' = <<>>
  /\ processed_files' = <<>>
  /\ getLog' = [p \in included_files |-> None]
  /\ results' = IF results = <<>> THEN <<>> ELSE <<Sorted(results[Len(results)])>>
  /\ UNCHANGED <<fsVars, envSteps, stored, pureVars>>

\* a task returns `result`: join_next will yield it
Finish(p, result) ==
  /\ taskPc' = [taskPc EXCEPT ![p] = IF result.ok THEN "finished" ELSE "failed"]
  /\ taskPf' = [taskPf EXCEPT ![p] = Some(result)]
  /\ completed' = Append(completed, p)

\* from_cache_or_process up to its first await inside cache.write: cache.get,
\* and after a Miss process_file (NoopCache::write returns at once)
Get(p) ==
  /\ parsePc = "running"
  /\ taskPc[p] = "spawned"
  /\ LET r == Cache_get(config, cacheFiles, p, files[p])
         pf == process_file(p, files[p], config)
     IN /\ getLog' = [getLog EXCEPT ![p] =
                        Some([result |-> r, contents |-> files[p],
                              bytes |-> cacheFiles[CachePath(p)], stored |-> stored[p]])]
        /\ IF ~r.ok THEN Finish(p, r) /\ UNCHANGED taskKey
           ELSE IF r.val.kind = "Processed"
                THEN Finish(p, Ok(r.val.processed_file)) /\ UNCHANGED taskKey
                ELSE IF ~pf.ok
                     THEN Finish(p, pf) /\ UNCHANGED taskKey
                     ELSE IF ~config.cache_enabled
                     THEN /\ Finish(p, IF NoopCache_write(r.val.empty_cache_entry, pf.val).ok
                                       THEN pf
                                       ELSE NoopCache_write(r.val.empty_cache_entry, pf.val))
                          /\ UNCHANGED taskKey
                     ELSE /\ taskKey' = [taskKey EXCEPT ![p] = Some(r.val.empty_cache_entry)]
                          /\ taskPc' = [taskPc EXCEPT ![p] = "processed"]
                          /\ taskPf' = [taskPf EXCEPT ![p] = Some(pf)]
                          /\ UNCHANGED completed
  /\ UNCHANGED <<fsVars, config, run, envSteps, parsePc, processed_files,
                 results, stored, pureVars>>

\* CachedFile::write: the first File::create
Create(p) ==
  /\ parsePc = "running"
  /\ taskPc[p] = "processed"
  /\ LET cp == taskKey[p].val.cache_file_path
     IN IF can_create(shardDir[cp.shard], cacheFiles[cp])
        THEN /\ cacheFiles' = [cacheFiles EXCEPT ![cp] = Raw("")]
             /\ stored' = [stored EXCEPT ![p] = None]
             /\ taskPc' = [taskPc EXCEPT ![p] = "created"]
        ELSE /\ taskPc' = [taskPc EXCEPT ![p] = "create_failed"]
             /\ UNCHANGED <<cacheFiles, stored>>
  /\ UNCHANGED <<files, cacheRoot, shardDir, config, run, envSteps, parsePc, taskKey,
                 taskPf, completed, processed_files, results, getLog, pureVars>>

\* CachedFile::write: create_cache_dir_idempotently(parent_dir)
Mkdir(p) ==
  /\ parsePc = "running"
  /\ taskPc[p] = "create_failed"
  /\ LET cp == taskKey[p].val.cache_file_path
     IN IF can_create_dir_all(cacheRoot, shardDir[cp.shard])
        THEN /\ cacheRoot' = IF cacheRoot = "absent" THEN "dir" ELSE cacheRoot
             /\ shardDir' = [shardDir EXCEPT ![cp.shard] = IF @ = "absent" THEN "dir" ELSE @]
             /\ taskPc' = [taskPc EXCEPT ![p] = "dir_ok"]
             /\ UNCHANGED <<taskPf, completed>>
        ELSE /\ Finish(p, Err("Failed to create cache directory"))
             /\ UNCHANGED <<cacheRoot, shardDir>>
  /\ UNCHANGED <<files, cacheFiles, config, run, envSteps, parsePc, taskKey,
                 processed_files, results, getLog, stored, pureVars>>

\* CachedFile::write: the second File::create
Create2(p) ==
  /\ parsePc = "running"
  /\ taskPc[p] = "dir_ok"
  /\ LET cp == taskKey[p].val.cache_file_path
     IN IF can_create(shardDir[cp.shard], cacheFiles[cp])
        THEN /\ cacheFiles' = [cacheFiles EXCEPT ![cp] = Raw("")]
             /\ stored' = [stored EXCEPT ![p] = None]
             /\ taskPc' = [taskPc EXCEPT ![p] = "created2"]
             /\ UNCHANGED <<taskPf, completed>>
        ELSE /\ Finish(p, Err("failed to create cache file"))
             /\ UNCHANGED <<cacheFiles, stored>>
  /\ UNCHANGED <<files, cacheRoot, shardDir, config, run, envSteps, parsePc, taskKey,
                 processed_files, results, getLog, pureVars>>

\* CachedFile::write: write_all, and from_cache_or_process returns
WriteAll(p) ==
  /\ parsePc = "running"
  /\ taskPc[p] \in {"created", "created2"}
  /\ LET empty_cache_entry == taskKey[p].val
         processed_file == taskPf[p].val.val
         cache_entry == CacheEntry(empty_cache_entry.file_contents_digest, processed_file)
     IN /\ cacheFiles' = [cacheFiles EXCEPT
                            ![empty_cache_entry.cache_file_path] = JsonDoc(to_string(cache_entry))]
        /\ stored' = [stored EXCEPT ![p] =
                        Some([key |-> empty_cache_entry, processed_file |-> processed_file,
                              contents |-> files[p], config |-> config,
                              made_dir |-> taskPc[p] = "created2"])]
        /\ Finish(p, Ok(processed_file))
  /\ UNCHANGED <<files, cacheRoot, shardDir, config, run, envSteps, parsePc, taskKey,
                 processed_files, results, getLog, pureVars>>


Returned(value) ==
  /\ results' = Append(results, RunRecord(value))
  /\ parsePc' = "idle"
  /\ taskPc' = [p \in included_files |-> "none"]
  /\ taskKey' = [p \in included_files |-> None]
  /\ taskPf' = [p \in included_files |-> None]
  /\ completed' = <<>>
  /\ processed_files' = <<>>
  /\ getLog' = [p \in included_files |-> None]

\* a loop that skips a failed task instead of bailing
join_next_skipping(vec, res) ==
  [bail |-> FALSE, processed_files |-> IF res.ok THEN Append(vec, res.val) ELSE vec]

\* the body of parse's `while let Some(res) = set.join_next().await`
join_next(vec, res) ==
  IF res.ok THEN [bail |-> FALSE, processed_files |-> Append(vec, res.val)]
  ELSE [bail |-> TRUE, processed_files |-> vec]

\* parse takes the next finished task; on an error it bails, the JoinSet is
\* dropped (the tasks still running are aborted) and all_references returns
JoinNext ==
  /\ parsePc = "running"
  /\ completed # <<>>
  /\ LET p == Head(completed)
         step == join_next(processed_files, taskPf[p].val)
     IN IF step.bail
        THEN Returned(Err("failed to parse processed files"))
        ELSE /\ processed_files' = step.processed_files
             /\ taskPc' = [taskPc EXCEPT ![p] = "joined"]
             /\ completed' = Tail(completed)
             /\ UNCHANGED <<parsePc, results, taskKey, taskPf, getLog>>
  /\ UNCHANGED <<fsVars, config, run, envSteps, stored, pureVars>>

\* the contiguous pieces rayon may split the Vec into, cut after the indices in `cuts`
split_at(vec, cuts) ==
  LET n == Cardinality(cuts)
      nth(i) == CHOOSE c \in cuts : Cardinality({d \in cuts : d <= c}) = i
      last(i) == IF i <= n THEN nth(i) ELSE Len(vec)
      first(i) == IF i = 1 THEN 1 ELSE nth(i - 1) + 1
  IN [i \in 1..(n + 1) |-> SubSeq(vec, first(i), last(i))]

\* try_fold over one piece: the closure called on its files, left to right
RECURSIVE try_fold(_, _, _, _)
try_fold(acc, configuration, resolver, piece) ==
  IF piece = <<>> THEN acc
  ELSE try_fold(IF acc.ok THEN fold_processed_file(acc.val, configuration, resolver, Head(piece))
                ELSE acc,
                configuration, resolver, Tail(piece))

\* one call of the try_reduce closure on two neighbouring results
reduce_op(acc, vec) ==
  IF ~acc.ok THEN acc ELSE IF ~vec.ok THEN vec ELSE Ok(acc.val \o vec.val)

\* try_reduce over the results of the pieces, neighbours joined in their order
RECURSIVE try_reduce(_)
try_reduce(accs) ==
  IF accs = <<>> THEN Ok(<<>>)
  ELSE reduce_op(try_reduce(SubSeq(accs, 1, Len(accs) - 1)), accs[Len(accs)])

\* par_iter().try_fold(..).try_reduce(..) for one way of splitting the Vec
par_fold_reduce(configuration, vec, resolver, cuts) ==
  LET split == split_at(vec, cuts)
  IN try_reduce([i \in DOMAIN split |-> try_fold(Ok(<<>>), configuration, resolver, split[i])])

\* join_next yields None: parse returns the Vec; all_references builds the
\* resolver, folds and reduces the Vec in parallel and returns.  The closures
\* share no state, so the split is the only freedom of the parallel part.
Return ==
  /\ parsePc = "running"
  /\ \A p \in included_files : taskPc[p] = "joined"
  /\ \E roots \in RootOrders, defined_files \in FileOrders,
        cuts \in SUBSET (1..(Len(processed_files) - 1)) :
       Returned(par_fold_reduce(
                  config, processed_files,
                  ZeitwerkConstantResolver_create(inferred_constants(config, roots, defined_files)),
                  cuts))
  /\ UNCHANGED <<fsVars, config, run, envSteps, stored, pureVars>>

\* Configuration::delete_cache: remove_dir_all(cache_directory)
DeleteCache ==
  /\ parsePc = "idle"
  /\ envSteps < MaxEnvSteps
  /\ cacheRoot # "absent"
  /\ envSteps' = envSteps + 1
  /\ cacheRoot' = "absent"
  /\ shardDir' = [s \in Shards |-> "absent"]
  /\ cacheFiles' = [cp \in CachePaths |-> Absent]
  /\ stored' = [p \in included_files |-> None]
  /\ UNCHANGED <<files, config, run, parsePc, taskVars, processed_files,
                 results, getLog, pureVars>>

(* Changes made from outside, between two runs *)

\* somebody edits a source file
ChangeContents(p, contents) ==
  /\ parsePc = "idle"
  /\ envSteps < MaxEnvSteps
  /\ contents # files[p]
  /\ envSteps' = envSteps + 1
  /\ files' = [files EXCEPT ![p] = contents]
  /\ UNCHANGED <<cacheRoot, shardDir, cacheFiles, config, run, parsePc, taskVars,
                 processed_files, results, getLog, stored, pureVars>>

\* bytes a cache file can be overwritten with: text that is not JSON, JSON of
\* another shape
CorruptBytes ==
  {Raw("$$$"), JsonDoc(JObj([file_contents_digest |-> JStr("9e107d9d")]))}

\* somebody overwrites a cache file
Corrupt(p, bytes) ==
  /\ parsePc = "idle"
  /\ envSteps < MaxEnvSteps
  /\ cacheFiles[CachePath(p)].kind # "absent"
  /\ cacheFiles[CachePath(p)] # bytes
  /\ envSteps' = envSteps + 1
  /\ cacheFiles' = [cacheFiles EXCEPT ![CachePath(p)] = bytes]
  /\ stored' = [stored EXCEPT ![p] = None]
  /\ UNCHANGED <<files, cacheRoot, shardDir, config, run, parsePc, taskVars,
                 processed_files, results, getLog, pureVars>>

\* somebody takes the write permission from the cache directories
MakeReadOnly ==
  /\ parsePc = "idle"
  /\ envSteps < MaxEnvSteps
  /\ cacheRoot = "dir"
  /\ envSteps' = envSteps + 1
  /\ cacheRoot' = "ro"
  /\ shardDir' = [s \in Shards |-> IF shardDir[s] = "dir" THEN "ro" ELSE shardDir[s]]
  /\ UNCHANGED <<files, cacheFiles, config, run, parsePc, taskVars, processed_files,
                 results, getLog, stored, pureVars>>

Next ==
  \/ \E cache_enabled \in BOOLEAN, include_reference_is_definition \in BOOLEAN :
       StartRun(cache_enabled, include_reference_is_definition)
  \/ \E p \in included_files : Get(p)
  \/ \E p \in included_files : Create(p)
  \/ \E p \in included_files : Mkdir(p)
  \/ \E p \in included_files : Create2(p)
  \/ \E p \in included_files : WriteAll(p)
  \/ JoinNext
  \/ Return
  \/ DeleteCache
  \/ \E p \in included_files, contents \in ContentsUniverse \cup {Unreadable} :
       ChangeContents(p, contents)
  \/ \E p \in included_files, bytes \in CorruptBytes : Corrupt(p, bytes)
  \/ MakeReadOnly

Spec == Init /\ [][Next]_vars


----------------------------------------------------------------------------
(* Properties of the cache and of the driver *)

Gets == {p \in included_files : getLog[p].some /\ config.cache_enabled}

C2_ContentInvalidation ==
  \A p \in Gets :
    LET g == getLog[p].val
    IN (/\ g.stored.some
        /\ g.contents # Unreadable
        /\ md5_contents(g.contents) # md5_contents(g.stored.val.contents))
         => /\ g.result.ok
            /\ g.result.val.kind = "Miss"
            /\ g.result.val.empty_cache_entry.file_contents_digest = md5_contents(g.contents)

C2_Witness ==
  \E p \in Gets :
    LET g == getLog[p].val
    IN /\ g.stored.some
       /\ g.contents \in ContentsUniverse
       /\ g.contents # g.stored.val.contents
       /\ g.result.ok
       /\ g.result.val.kind = "Miss"

\* bytes that are no cache entry
NotAnEntry(bytes) == bytes.kind = "raw" \/ bytes \in CorruptBytes

\* C3 (corruption tolerance): a get of a readable P whose cache file holds
\* bytes that are no cache entry returns Miss with the key of P, not an error.
C3_CorruptionTolerance ==
  \A p \in Gets :
    LET g == getLog[p].val
    IN (NotAnEntry(g.bytes) /\ g.contents # Unreadable)
         => /\ g.result.ok
            /\ g.result.val.kind = "Miss"
            /\ g.result.val.empty_cache_entry.filepath = p
            /\ g.result.val.empty_cache_entry.cache_file_path = CachePath(p)
            /\ g.result.val.empty_cache_entry.file_contents_digest = md5_contents(g.contents)

C3_Witness ==
  \E p \in Gets :
    LET g == getLog[p].val
    IN /\ g.bytes \in CorruptBytes
       /\ g.result.ok
       /\ g.result.val.kind = "Miss"

\* the included files, one after the other
included_order == <<FooRb, BarRb>>

\* what one task returns when nothing runs beside it
SequentialTask(cfg, fls, disk, p) ==
  LET r == Cache_get(cfg, [cp \in CachePaths |->
                             disk[CHOOSE q \in included_files : CachePath(q) = cp]],
                     p, fls[p])
  IN IF ~r.ok THEN r
     ELSE IF r.val.kind = "Processed" THEN Ok(r.val.processed_file)
     ELSE process_file(p, fls[p], cfg)

\* the sorted list of a run that takes the files in one fixed order, with one
\* fixed iteration order of the maps and without splitting the fold
SequentialReferences(cfg, fls, disk) ==
  LET pfs == [i \in DOMAIN included_order |->
                SequentialTask(cfg, fls, disk, included_order[i]).val]
      resolver == ZeitwerkConstantResolver_create(
                    inferred_constants(cfg, CHOOSE o \in RootOrders : TRUE,
                                       CHOOSE o \in FileOrders : TRUE))
  IN sort(try_fold(Ok(<<>>), cfg, resolver, pfs).val)

\* C4 (determinism under parallelism): whatever the completion order of the
\* tasks, the split of the fold and the iteration order of the maps, the
\* sorted list a run returns is the one list fixed by the files, the
\* configuration and the cache the run started from (stated of the run that
\* has just returned: every run is that one once).
C4_Determinism ==
  (parsePc = "idle" /\ results # <<>>) =>
    LET last == results[Len(results)]
    IN last.value.ok =>
         sort(last.value.val) = SequentialReferences(last.config, last.files, last.disk)

C4_Witness ==
  \E i \in DOMAIN results :
    /\ results[i].value.ok
    /\ Len(results[i].value.val) > 2
    /\ results[i].value.val # sort(results[i].value.val)
    /\ results[i].value.val #
         try_fold(Ok(<<>>), results[i].config,
                  ZeitwerkConstantResolver_create(
                    inferred_constants(results[i].config, CHOOSE o \in RootOrders : TRUE,
                                       CHOOSE o \in FileOrders : TRUE)),
                  [j \in DOMAIN included_order |->
                     SequentialTask(results[i].config, results[i].files, results[i].disk,
                                    included_order[j]).val]).val

\* C5 (abort on first fatal error): a run in which a task failed (its file
\* could not be read, or its cache write failed), and any run over a file that
\* cannot be read, returns an error and no list.
C5_AbortOnError ==
  (parsePc = "idle" /\ results # <<>>) =>
    LET last == results[Len(results)]
    IN (last.failed # {} \/ \E p \in included_files : last.files[p] = Unreadable)
         => ~last.value.ok

C5_Witness ==
  \E i \in DOMAIN results :
    /\ ~results[i].value.ok
    /\ results[i].files[FooRb] = Unreadable
    /\ results[i].config.cache_enabled
    /\ stored[BarRb].some
    /\ stored[BarRb].val.config = results[i].config
    /\ results[i].disk[BarRb].kind = "absent"

\* C6 (warm cache equals cold cache): a run that processed every file and
\* returned a list, followed by a run with the same configuration (caching
\* enabled) over the same files with nothing changed in between: the second
\* run is served from the cache and returns the same sorted list.
C6_WarmEqualsCold ==
  \A i \in {Len(results) - 1} :
    (/\ i \in DOMAIN results
     /\ parsePc = "idle"
     /\ results[i].config.cache_enabled
     /\ results[i].value.ok
     /\ results[i].hits = {}
     /\ results[i + 1].config = results[i].config
     /\ results[i + 1].files = results[i].files
     /\ results[i + 1].env = results[i].env)
      => /\ results[i + 1].hits = included_files
         /\ results[i + 1].value.ok
         /\ sort(results[i + 1].value.val) = sort(results[i].value.val)

C6_Witness ==
  \E i \in DOMAIN results :
    /\ i + 1 \in DOMAIN results
    /\ results[i].config.cache_enabled
    /\ results[i].value.ok
    /\ results[i].hits = {}
    /\ results[i + 1].config = results[i].config
    /\ results[i + 1].files = results[i].files
    /\ results[i + 1].env = results[i].env
    /\ results[i + 1].hits = included_files
    /\ results[i + 1].value.ok
    /\ Len(results[i + 1].value.val) > 2


----------------------------------------------------------------------------
(* The file processor on its own: process_from_contents applied to a source *)
(* text, once with include_reference_is_definition = false (the default)    *)
(* and once with true.                                                      *)

\* the driver at rest
Idle ==
  /\ files = [p \in included_files |-> IF p = FooRb THEN ContentsA ELSE ContentsB]
  /\ cacheRoot = "absent"
  /\ shardDir = [s \in Shards |-> "absent"]
  /\ cacheFiles = [cp \in CachePaths |-> Absent]
  /\ config = Configuration(TRUE, FALSE)
  /\ run = 0
  /\ envSteps = 0
  /\ parsePc = "idle"
  /\ taskPc = [p \in included_files |-> "none"]
  /\ taskKey = [p \in included_files |-> None]
  /\ taskPf = [p \in included_files |-> None]
  /\ completed = <<>>
  /\ processed_files = <<>>
  /\ results = <<>>
  /\ getLog = [p \in included_files |-> None]
  /\ stored = [p \in included_files |-> None]

driverVars == <<fsVars, config, run, envSteps, parsePc, taskVars, processed_files,
                results, getLog, stored>>

\* the bodies of at most MaxBody statements
RECURSIVE Bodies(_)
Bodies(n) ==
  IF n = 0 THEN {<<>>}
  ELSE Bodies(n - 1) \cup {Append(b, st) : b \in {c \in Bodies(n - 1) : Len(c) = n - 1},
                                           st \in Statements}

InitFilter ==
  /\ Idle
  /\ input \in {SourceText(outer, body) : outer \in Outers, body \in Bodies(MaxBody)}
  /\ output = [default |-> None, with_definitions |-> None]

ProcessDefault ==
  /\ ~output.default.some
  /\ output' = [output EXCEPT
                  !.default = Some(process_from_contents(input, FooRb,
                                                         Configuration(TRUE, FALSE)))]
  /\ UNCHANGED <<driverVars, input>>

ProcessWithDefinitions ==
  /\ ~output.with_definitions.some
  /\ output' = [output EXCEPT
                  !.with_definitions = Some(process_from_contents(input, FooRb,
                                                                  Configuration(TRUE, TRUE)))]
  /\ UNCHANGED <<driverVars, input>>

NextFilter == ProcessDefault \/ ProcessWithDefinitions

SpecFilter == InitFilter /\ [][NextFilter]_vars

\* what the collector found in the input
Collected == collect(input, Configuration(TRUE, FALSE))

DefaultRefs == output.default.val.val.unresolved_references
AllRefs == output.with_definitions.val.val.unresolved_references
BothDone == output.default.some /\ output.with_definitions.some

\* the definitions of the file that the candidates of r match, candidate by candidate
MatchedLocations(r) ==
  LET map == definition_to_location_map(Collected.definitions)
      possible_constants == possible_fully_qualified_constants(r.namespace_path, r.name)
      matching == SelectSeq(possible_constants, LAMBDA c : lookup_location(map, c).some)
  IN [i \in DOMAIN matching |-> lookup_location(map, matching[i]).val]

SameStart(location, r) ==
  location.start_row = r.location.start_row /\ location.start_col = r.location.start_col

\* a file with one definition and one reference, at the same span
SoleDeclaration ==
  /\ Len(Collected.definitions) = 1
  /\ Len(Collected.references) = 1
  /\ Collected.definitions[1].location = Collected.references[1].location

IsSubsequence(a, b) ==
  \E keep \in SUBSET DOMAIN b :
    /\ Cardinality(keep) = Len(a)
    /\ \A i \in DOMAIN a :
         a[i] = b[CHOOSE k \in keep : Cardinality({l \in keep : l <= k}) = i]

\* the reference a class or module declaration emits for itself
IsDeclaration(r) ==
  \E i \in DOMAIN Collected.definitions :
    /\ Collected.definitions[i].fully_qualified_name = r.name
    /\ Collected.definitions[i].location = r.location

\* a reference to a constant the file defines at another position
DefinedElsewhereInFile(r) ==
  LET m == MatchedLocations(r) IN \E j \in DOMAIN m : ~SameStart(m[j], r)

----------------------------------------------------------------------------
(* The resolver on its own: the constants are inferred from the tree, the   *)
(* resolver is built from them, and one name is resolved under one nesting. *)

ResolveNames ==
  {<<"Foo">>, <<"Bar">>, <<"Baz">>, <<"Widget">>, <<"Foo", "Bar">>,
   <<"SomeConcern">>, <<"Concerns", "SomeConcern">>,
   <<"", "Foo">>, <<"", "Bar">>, <<"", "Baz">>, <<"", "Foo", "Bar">>}

NestingNames == {<<"Foo">>, <<"Bar">>, <<"Baz">>, <<"Company">>}

RECURSIVE Nestings(_)
Nestings(n) ==
  IF n = 0 THEN {<<>>}
  ELSE Nestings(n - 1) \cup {Append(ns, m) : ns \in {c \in Nestings(n - 1) : Len(c) = n - 1},
                                             m \in NestingNames}

\* the default namespace of app/company_data written with and without its "::"
DefaultNamespaces == {<<"", "Company">>, <<"Company">>}

ResolveConfigurations ==
  {[Configuration(FALSE, FALSE) EXCEPT !.autoload_paths[CompanyData] = default_namespace] :
     default_namespace \in DefaultNamespaces}

InitResolve ==
  /\ Idle
  /\ input \in {[name |-> name, namespace_path |-> ns, configuration |-> configuration,
                 roots |-> roots, defined_files |-> defined_files] :
                  name \in ResolveNames, ns \in Nestings(MaxNesting),
                  configuration \in ResolveConfigurations,
                  roots \in RootOrders, defined_files \in FileOrders}
  /\ output = [resolved |-> None]

\* get_zeitwerk_constant_resolver
Resolver ==
  ZeitwerkConstantResolver_create(
    inferred_constants(input.configuration, input.roots, input.defined_files))

Resolve ==
  /\ ~output.resolved.some
  /\ output' = [output EXCEPT
                  !.resolved = Some(resolve(Resolver, input.name, input.namespace_path))]
  /\ UNCHANGED <<driverVars, input>>

NextResolve == Resolve

SpecResolve == InitResolve /\ [][NextResolve]_vars

\* "::" + join(stack[..k] + split(name, "::"), "::")
Candidate(k) ==
  <<"">> \o Concat(SubSeq(input.namespace_path, 1, k)) \o input.name

\* the candidates that have a definition
Defined == {k \in 0..Len(input.namespace_path) : Candidate(k) \in DOMAIN Resolver}

FullyQualifiedNames(defs) == {defs[i].fully_qualified_name : i \in DOMAIN defs}
DefiningFiles(defs) == {defs[i].absolute_path_of_definition : i \in DOMAIN defs}

----------------------------------------------------------------------------
(* The constants inferred from the tree. *)

\* the autoload roots a file lies under
RootsOf(f) == {root \in DOMAIN input.configuration.autoload_paths : f \in glob_rb(root)}

\* the constants the resolver was built from: fully qualified name -> files
ConstantsOf(f) == {name \in DOMAIN Resolver : f \in DefiningFiles(Resolver[name])}

\* C11 (nested-autoload precedence): every file under some autoload root
\* defines exactly one constant, named by its path relative to the root with
\* the most components among the roots it lies under, behind that root's
\* default namespace; models/concerns/some_concern.rb under the roots models
\* and models/concerns defines ::SomeConcern and not ::Concerns::SomeConcern.
C11_NestedAutoload ==
  output.resolved.some =>
    /\ \A f \in TreeFiles :
         IF RootsOf(f) = {} THEN ConstantsOf(f) = {}
         ELSE LET deepest == CHOOSE root \in RootsOf(f) :
                               \A other \in RootsOf(f) : Len(other) <= Len(root)
              IN ConstantsOf(f) =
                   {input.configuration.autoload_paths[deepest] \o
                      camelize(SubSeq(f.comps, Len(deepest) + 1, Len(f.comps)), {})}
    /\ ConstantsOf(SomeConcernRb) = {<<"", "SomeConcern">>}
    /\ <<"", "Concerns", "SomeConcern">> \notin DOMAIN Resolver
    /\ (input.name = <<"SomeConcern">> /\ input.namespace_path = <<>>)
         => output.resolved.val =
              Some(<<ConstantDefinition(<<"", "SomeConcern">>, SomeConcernRb)>>)
    /\ input.name = <<"Concerns", "SomeConcern">> => output.resolved.val = None

C11_Witness ==
  /\ output.resolved.some
  /\ input.name = <<"SomeConcern">>
  /\ input.namespace_path = <<>>
  /\ RootsOf(SomeConcernRb) = {ModelsBar, ConcernsBar}
  /\ Head(input.roots) = CompanyData
  /\ output.resolved.val.some

\* the statement of C12 read to the letter: the default namespace is
\* configured as "Company", without the leading "::"
C12_AsStated ==
  (/\ output.resolved.some
   /\ input.configuration.autoload_paths[CompanyData] = <<"Company">>
   /\ input.name = <<"Widget">>
   /\ input.namespace_path = <<<<"Company">>>>)
    => output.resolved.val =
         Some(<<ConstantDefinition(<<"", "Company", "Widget">>, WidgetRb)>>)

\* C12 (default-namespace override): the constant of app/company_data/widget.rb
\* is named default_namespace + "::" + "Widget".  With the default namespace
\* of app/company_data configured as "::Company", Widget under the nesting
\* [Company] resolves to the one ConstantDefinition ::Company::Widget defined
\* in that file; configured as "Company" the file defines Company::Widget,
\* which no lookup candidate names, so that Widget under [Company] resolves
\* to nothing.
C12_DefaultNamespace ==
  output.resolved.some =>
    LET default_namespace == input.configuration.autoload_paths[CompanyData]
        widget_under_company ==
          input.name = <<"Widget">> /\ input.namespace_path = <<<<"Company">>>>
    IN /\ ConstantsOf(WidgetRb) = {default_namespace \o <<"Widget">>}
       /\ (widget_under_company /\ default_namespace = <<"", "Company">>)
            => output.resolved.val =
                 Some(<<ConstantDefinition(<<"", "Company", "Widget">>, WidgetRb)>>)
       /\ (widget_under_company /\ default_namespace = <<"Company">>)
            => /\ output.resolved.val = None
               /\ ConstantsOf(WidgetRb) = {<<"Company", "Widget">>}

C12_Witness ==
  /\ output.resolved.some
  /\ input.configuration.autoload_paths[CompanyData] = <<"", "Company">>
  /\ input.name = <<"Widget">>
  /\ input.namespace_path = <<<<"Company">>>>
  /\ output.resolved.val.some
  /\ RootsOf(WidgetRb) = {CompanyData}

----------------------------------------------------------------------------
(* The reference builder on its own: one unresolved reference of one file   *)
(* is turned into references, and a parsed list of two files that ends with *)
(* that file is folded and reduced as all_references does.                  *)

AbsoluteRoots == {absolute_root, <<"r", "packs">>}

ReferencingFiles == {FooRb, WidgetRb}

Locations == {Rng(3, 2, 3, 5), Rng(1, 0, 1, 3)}

ReferenceNestings == {<<>>, <<<<"Foo">>>>, <<<<"Company">>>>}

InitReferences ==
  /\ Idle
  /\ input \in {[name |-> name, namespace_path |-> ns, location |-> location,
                 referencing_file_path |-> path,
                 configuration |-> [configuration EXCEPT !.absolute_root = root],
                 roots |-> roots, defined_files |-> defined_files] :
                  name \in ResolveNames, ns \in ReferenceNestings, location \in Locations,
                  path \in ReferencingFiles, configuration \in ResolveConfigurations,
                  root \in AbsoluteRoots, roots \in RootOrders,
                  defined_files \in FileOrders}
  /\ output = [references |-> None, all_references |-> None]

\* the unresolved reference of the file at hand
Unresolved == UnresolvedReference(input.name, input.namespace_path, input.location)

FromUnresolvedReference ==
  /\ ~output.references.some
  /\ output' = [output EXCEPT
                  !.references =
                     Some(from_unresolved_reference(input.configuration, Resolver, Unresolved,
                                                    input.referencing_file_path))]
  /\ UNCHANGED <<driverVars, input>>

\* what parse returned: bar.rb with a reference to Foo, then the file at hand
ParsedFiles ==
  <<ProcessedFile(BarRb, <<UnresolvedReference(<<"Foo">>, <<>>, Rng(1, 0, 1, 3))>>),
    ProcessedFile(input.referencing_file_path, <<Unresolved>>)>>

\* all_references after parse: the resolver is built and the Vec is folded
\* and reduced, split in any way
AllReferences ==
  /\ ~output.all_references.some
  /\ \E cuts \in SUBSET (1..(Len(ParsedFiles) - 1)) :
       output' = [output EXCEPT
                    !.all_references =
                       Some(par_fold_reduce(input.configuration, ParsedFiles, Resolver, cuts))]
  /\ UNCHANGED <<driverVars, input>>

NextReferences == FromUnresolvedReference \/ AllReferences

SpecReferences == InitReferences /\ [][NextReferences]_vars

\* what the resolver returns for the unresolved reference
Resolved == resolve(Resolver, input.name, input.namespace_path)

UnderRoot(path) == IsPrefix(input.configuration.absolute_root, path.comps)

\* the referencing file and every defining file lie under absolute_root
AllUnderRoot ==
  /\ UnderRoot(input.referencing_file_path)
  /\ Resolved.some =>
       \A i \in DOMAIN Resolved.val : UnderRoot(Resolved.val[i].absolute_path_of_definition)

RelativeTo(path) ==
  Path(SubSeq(path.comps, Len(input.configuration.absolute_root) + 1, Len(path.comps)),
       path.ext)

\* C13 (reference builder output): with the files under absolute_root, an
\* unresolved reference u of file P yields at least one Reference; when the
\* resolver returns definitions there is exactly one Reference per definition,
\* in their order, with constant_name the definition's fully qualified name
\* and relative_defining_file its path stripped of the absolute root; when the
\* resolver returns nothing there is exactly one Reference with constant_name
\* u.name and no relative_defining_file; in all of them source_location is
\* (u.location.start_row, u.location.start_col).
C13_BuilderOutput ==
  (output.references.some /\ AllUnderRoot) =>
    /\ output.references.val.ok
    /\ LET references == output.references.val.val
       IN /\ Len(references) >= 1
          /\ Resolved.some =>
               /\ Len(references) = Len(Resolved.val)
               /\ \A i \in DOMAIN references :
                    /\ references[i].constant_name = Resolved.val[i].fully_qualified_name
                    /\ references[i].relative_defining_file =
                         Some(RelativeTo(Resolved.val[i].absolute_path_of_definition))
          /\ ~Resolved.some =>
               /\ Len(references) = 1
               /\ references[1].constant_name = input.name
               /\ references[1].relative_defining_file = None
          /\ \A i \in DOMAIN references :
               /\ references[i].source_location =
                    [line |-> input.location.start_row, column |-> input.location.start_col]
               /\ references[i].relative_referencing_file =
                    RelativeTo(input.referencing_file_path)

C13_Witness ==
  /\ output.references.some
  /\ output.references.val.ok
  /\ Resolved.some
  /\ Len(output.references.val.val) = 2
  /\ input.configuration.absolute_root = <<"r", "packs">>
  /\ input.location = Rng(3, 2, 3, 5)

\* C14 (path-prefix failure is fatal): when the referencing file, or the
\* defining file of any definition the resolver returns, is not under
\* absolute_root, from_unresolved_reference returns an error and no Reference,
\* and all_references over a list that holds the file returns an error
\* instead of a list, however the fold is split.
C14_PrefixFailure ==
  ~AllUnderRoot =>
    /\ output.references.some => ~output.references.val.ok
    /\ output.all_references.some => ~output.all_references.val.ok

C14_Witness ==
  /\ output.references.some
  /\ output.all_references.some
  /\ UnderRoot(input.referencing_file_path)
  /\ Resolved.some
  /\ \E i \in DOMAIN Resolved.val : ~UnderRoot(Resolved.val[i].absolute_path_of_definition)
  /\ ~output.all_references.val.ok

----------------------------------------------------------------------------
(* process_file on its own: one path of any kind with any contents. *)

Directories == {<<"r">>, <<"r", "Gemfile">>}

FileStems == {"my", "Gemfile", "Rakefile", "MyGemfile", ".rb", "application.html"}

Extensions == {"", "rb", "rake", "builder", "gemspec", "ru", "erb", "rs", "lock"}

TemplateA == Template(<<"<p>", "<%= Foo %>", "</p>", "<% Bar %>">>)
TemplateB == Template(<<"<p>", "</p>">>)

FileContents == {ContentsA, ContentsB, SyntaxError, Unreadable, TemplateA, TemplateB}

InitFiles ==
  /\ Idle
  /\ input \in {[path |-> Path(Append(directory, stem), ext), contents |-> contents,
                 configuration |-> Configuration(FALSE, flag)] :
                  directory \in Directories, stem \in FileStems, ext \in Extensions,
                  contents \in FileContents, flag \in BOOLEAN}
  /\ output = [file_type |-> None, processed_file |-> None]

GetFileType ==
  /\ ~output.file_type.some
  /\ output' = [output EXCEPT
                  !.file_type = Some(get_file_type(input.path, input.configuration))]
  /\ UNCHANGED <<driverVars, input>>

ProcessFile ==
  /\ ~output.processed_file.some
  /\ output' = [output EXCEPT
                  !.processed_file =
                     Some(process_file(input.path, input.contents, input.configuration))]
  /\ UNCHANGED <<driverVars, input>>

NextFiles == GetFileType \/ ProcessFile

SpecFiles == InitFiles /\ [][NextFiles]_vars

\* the last component of the path
FileName(path) ==
  <<path.comps[Len(path.comps)], path.ext>>

\* the text handed to the parser
ParsedText ==
  IF input.path.ext = "erb" THEN convert_erb_to_ruby_without_sourcemaps(input.contents)
  ELSE input.contents

\* C15 (file-type dispatch): a path is language source when its extension is
\* one of rb, rake, builder, gemspec, ru or its file name is Gemfile or
\* Rakefile, templated source when its extension is erb, and ignored
\* otherwise; an ignored path (readable or not) and a readable path whose
\* text has no AST both give Ok(ProcessedFile) with that absolute_path and no
\* references.
C15_FileTypes ==
  LET language == \/ input.path.ext \in {"rb", "rake", "builder", "gemspec", "ru"}
                  \/ FileName(input.path) \in {<<"Gemfile", "">>, <<"Rakefile", "">>}
      templated == input.path.ext = "erb"
      empty == Ok(ProcessedFile(input.path, <<>>))
  IN /\ output.file_type.some =>
          output.file_type.val = IF templated THEN Some("Erb")
                                 ELSE IF language THEN Some("Ruby") ELSE None
     /\ output.processed_file.some =>
          /\ (~language /\ ~templated) => output.processed_file.val = empty
          /\ (input.contents # Unreadable /\ ~build_ast(ParsedText).some)
               => output.processed_file.val = empty
          /\ (output.processed_file.val.ok /\ output.processed_file.val.val.unresolved_references # <<>>)
               => (language \/ templated) /\ build_ast(ParsedText).some

C15_Witness ==
  /\ output.file_type = Some(None)
  /\ output.processed_file = Some(Ok(ProcessedFile(input.path, <<>>)))
  /\ input.contents = Unreadable
  /\ FileName(input.path) = <<"MyGemfile", "">>

----------------------------------------------------------------------------
(* The list parse returns. *)

\* join_next has yielded every task and none had failed: parse returns
\* Ok(processed_files)
ParseSucceeded ==
  /\ parsePc = "running"
  /\ \A p \in included_files : taskPc[p] = "joined"

PositionsOf(p) == {i \in DOMAIN processed_files : processed_files[i].absolute_path = p}

\* the files the current run found in the cache
Hits ==
  {p \in included_files :
     getLog[p].some /\ getLog[p].val.result.ok /\ getLog[p].val.result.val.kind = "Processed"}

\* C16 (one ProcessedFile per input): the list parse returns has exactly one
\* ProcessedFile for each path of included_files and nothing else, whatever
\* the order the tasks completed in and whether the file was found in the
\* cache or processed; while the tasks are joined the list holds one entry
\* for each joined task and none for the others.
C16_OnePerInput ==
  /\ ParseSucceeded =>
       /\ Len(processed_files) = Cardinality(included_files)
       /\ \A p \in included_files : Cardinality(PositionsOf(p)) = 1
       /\ \A i \in DOMAIN processed_files : processed_files[i].absolute_path \in included_files
  /\ parsePc = "running" =>
       \A p \in included_files :
         Cardinality(PositionsOf(p)) = IF taskPc[p] = "joined" THEN 1 ELSE 0

C16_Witness ==
  /\ ParseSucceeded
  /\ Hits = {included_order[1]}
  /\ processed_files[1].absolute_path = included_order[2]
  /\ processed_files[2].absolute_path = included_order[1]

----------------------------------------------------------------------------
(* The collector on its own: a text is parsed and visited, then the        *)
(* references are filtered and the ProcessedFile is returned.              *)

CollectOuters ==
  {"", "class Foo", "class Foo < Bar", "module Foo::Bar", "class ::Foo", "module ::Bar",
   "class self::Foo", "module self::Foo"}

CollectStatements ==
  {"Foo", "Foo::Bar", "BAR = 1", "::BAR = 1", "Foo::BAR = 1", "class ::Baz; end",
   "class Baz < Foo; end", "belongs_to :foo", "belongs_to :foo, class_name: 'Bar'",
   "belongs_to :foo, class_name: ''", "class self::Baz < Foo; Bar; end",
   "module self::Baz; Bar; end"}

\* the bodies of at most n statements
RECURSIVE CollectBodies(_)
CollectBodies(n) ==
  IF n = 0 THEN {<<>>}
  ELSE CollectBodies(n - 1) \cup
         {Append(b, st) : b \in {c \in CollectBodies(n - 1) : Len(c) = n - 1},
                          st \in CollectStatements}

InitCollect ==
  /\ Idle
  /\ input \in {[contents |-> SourceText(outer, body),
                 configuration |-> Configuration(FALSE, flag)] :
                  outer \in CollectOuters, body \in CollectBodies(MaxBody), flag \in BOOLEAN}
  /\ output = [collector |-> None, processed_file |-> None]

\* process_from_contents up to the end of collector.visit(&ast)
Visit ==
  /\ ~output.collector.some
  /\ output' = [output EXCEPT
                  !.collector = Some(collect(input.contents, input.configuration))]
  /\ UNCHANGED <<driverVars, input>>

\* process_from_contents from there: the filter and the returned value (the
\* panic of the visit, when there was one)
ProcessFromContents ==
  /\ output.collector.some
  /\ ~output.processed_file.some
  /\ output' = [output EXCEPT
                  !.processed_file =
                     Some(process_from_contents(input.contents, FooRb, input.configuration))]
  /\ UNCHANGED <<driverVars, input>>

NextCollect == Visit \/ ProcessFromContents

SpecCollect == InitCollect /\ [][NextCollect]_vars

\* a name that starts with "::" and has no empty segment behind it
WellFormedName(fully_qualified_name) ==
  /\ Len(fully_qualified_name) >= 2
  /\ Head(fully_qualified_name) = ""
  /\ \A i \in 2..Len(fully_qualified_name) : fully_qualified_name[i] # ""

\* C17 (definition names): every ParsedDefinition the collector produces, for
\* a class, a module or a constant assignment, at any nesting depth and also
\* when the declared name is qualified or rooted with a leading "::", has a
\* fully_qualified_name that starts with "::" and has no empty segment.
C17_AsStated ==
  output.collector.some =>
    \A i \in DOMAIN output.collector.val.definitions :
      WellFormedName(output.collector.val.definitions[i].fully_qualified_name)

\* the declarations whose name is rooted
RootedOuters == {"class ::Foo", "module ::Bar"}
RootedStatements == {"::BAR = 1", "class ::Baz; end"}

\* C17, what the collector does: the names of the definitions are ill-formed
\* only for rooted declarations, and each rooted declaration gives
\* "::" + nesting + "::" + "::Name"
C17_RootedNames ==
  output.collector.some =>
    LET definitions == output.collector.val.definitions
        rooted == \/ input.contents.outer \in RootedOuters
                  \/ \E i \in DOMAIN input.contents.body :
                       input.contents.body[i] \in RootedStatements
    IN /\ ~rooted => \A i \in DOMAIN definitions :
                       WellFormedName(definitions[i].fully_qualified_name)
       /\ (rooted /\ ~output.collector.val.panicked /\ input.contents.outer # "class self::Foo")
            => \E i \in DOMAIN definitions :
                 ~WellFormedName(definitions[i].fully_qualified_name)
       /\ input.contents = SourceText("class ::Foo", <<>>)
            => definitions = <<ParsedDefinition(<<"", "", "Foo">>, Rng(1, 6, 1, 12))>>
       /\ input.contents = SourceText("module Foo::Bar", <<"class ::Baz; end">>)
            => definitions = <<ParsedDefinition(<<"", "Foo", "Bar">>, Rng(1, 7, 1, 16)),
                               ParsedDefinition(<<"", "Foo", "Bar", "", "Baz">>,
                                                Rng(2, 8, 2, 14))>>

C17_Witness ==
  /\ output.collector.some
  /\ input.contents = SourceText("module Foo::Bar", <<"class ::Baz; end">>)
  /\ Len(output.collector.val.definitions) = 2
  /\ output.collector.val.definitions[2].fully_qualified_name =
       <<"", "Foo", "Bar", "", "Baz">>

\* the references of the returned ProcessedFile
Returned_references == output.processed_file.val.val.unresolved_references

ProcessedOk == output.processed_file.some /\ output.processed_file.val.ok

\* a starts after b in the source
After(a, b) ==
  \/ a.location.start_row > b.location.start_row
  \/ /\ a.location.start_row = b.location.start_row
     /\ a.location.start_col > b.location.start_col

\* the classes with a superclass that the visitor reaches: where the class
\* name and the superclass stand
RECURSIVE ClassesWithSuperclass(_)
ClassesWithSuperclass(nodes) ==
  IF nodes = <<>> THEN {}
  ELSE LET node == Head(nodes)
           named == node.type \in {"Class", "Module"} /\ fetch_const_name(node.name).ok
           own == IF named /\ node.type = "Class" /\ node.superclass.some
                  THEN {[name |-> loc_to_range(node.name),
                         superclass |-> loc_to_range(node.superclass.val)]}
                  ELSE {}
           inner == IF named \/ node.type = "Def"
                    THEN ClassesWithSuperclass(node.body) ELSE {}
       IN own \cup inner \cup ClassesWithSuperclass(Tail(nodes))

\* the statement of C18: no entry starts after the entry that follows it
C18_AsStated ==
  ProcessedOk =>
    \A i \in 1..(Len(Returned_references) - 1) :
      ~After(Returned_references[i], Returned_references[i + 1])

\* C18 (order of the references): the unresolved_references are in the order
\* the collector emits them, which is source order except that the reference
\* of a superclass is emitted before the reference of the class name it
\* follows in the source: an entry starts after its successor only when it is
\* the superclass reference and the successor the class-name reference of one
\* class, and with include_reference_is_definition every class declared with
\* a superclass has the two adjacent in that order (class Foo < Bar gives Bar,
\* then ::Foo).
C18_EmissionOrder ==
  ProcessedOk =>
    LET classes == ClassesWithSuperclass(<<build_ast(input.contents).val>>)
    IN /\ \A i \in 1..(Len(Returned_references) - 1) :
            After(Returned_references[i], Returned_references[i + 1]) =>
              \E class \in classes :
                /\ Returned_references[i].location = class.superclass
                /\ Returned_references[i + 1].location = class.name
       /\ input.configuration.include_reference_is_definition =>
            \A class \in classes :
              \E i \in 1..(Len(Returned_references) - 1) :
                /\ Returned_references[i].location = class.superclass
                /\ Returned_references[i + 1].location = class.name
                /\ After(Returned_references[i], Returned_references[i + 1])
       /\ input.contents = SourceText("class Foo < Bar", <<>>) =>
            Returned_references =
              <<UnresolvedReference(<<"Bar">>, <<>>, Rng(1, 12, 1, 16)),
                UnresolvedReference(<<"", "Foo">>, <<>>, Rng(1, 6, 1, 10))>>

C18_Witness ==
  /\ ProcessedOk
  /\ input.contents = SourceText("class Foo < Bar", <<"class Baz < Foo; end">>)
  /\ ~input.configuration.include_reference_is_definition
  /\ Len(Returned_references) >= 3
  /\ After(Returned_references[1], Returned_references[2])

\* the name is not the empty string
NonEmptyName(name) == name # <<"">> /\ name # <<>>

\* the range holds at least one character
NonEmptyRange(location) ==
  \/ location.start_row < location.end_row
  \/ /\ location.start_row = location.end_row
     /\ location.start_col < location.end_col

\* C19 (reference validity): every UnresolvedReference of every returned
\* ProcessedFile has a non-empty name, start_row >= 1, start_col >= 0 and a
\* non-empty range, whether it comes from a constant, from a class or module
\* declaration or from an association call (by symbol or by class_name).
C19_AsStated ==
  ProcessedOk =>
    \A i \in DOMAIN Returned_references :
      /\ NonEmptyName(Returned_references[i].name)
      /\ Returned_references[i].location.start_row >= 1
      /\ Returned_references[i].location.start_col >= 0
      /\ NonEmptyRange(Returned_references[i].location)

\* C19, what the collector does: the locations are valid in every returned
\* reference, and a name is empty only in the reference of an association
\* whose class_name is ''
C19_EmptyClassName ==
  ProcessedOk =>
    /\ \A i \in DOMAIN Returned_references :
         /\ Returned_references[i].location.start_row >= 1
         /\ Returned_references[i].location.start_col >= 0
         /\ NonEmptyRange(Returned_references[i].location)
         /\ ~NonEmptyName(Returned_references[i].name) =>
              /\ Returned_references[i].location.start_row - 1 \in DOMAIN input.contents.body
              /\ input.contents.body[Returned_references[i].location.start_row - 1] =
                   "belongs_to :foo, class_name: ''"
    /\ input.contents = SourceText("class Foo", <<"belongs_to :foo, class_name: ''">>) =>
         \E i \in DOMAIN Returned_references :
           Returned_references[i] =
             UnresolvedReference(<<"">>, <<<<"Foo">>>>, Rng(2, 2, 2, 34))

C19_Witness ==
  /\ ProcessedOk
  /\ input.contents = SourceText("class Foo", <<"belongs_to :foo, class_name: ''">>)
  /\ ~input.configuration.include_reference_is_definition
  /\ Len(Returned_references) = 2
  /\ Returned_references[2].name = <<"">>

\* the declarations whose name has a scope that is no constant
MetaprogrammedOuters == {"class self::Foo", "module self::Foo"}
MetaprogrammedStatements == {"class self::Baz < Foo; Bar; end", "module self::Baz; Bar; end"}

HasMetaprogramming ==
  \/ input.contents.outer \in MetaprogrammedOuters
  \/ \E i \in DOMAIN input.contents.body : input.contents.body[i] \in MetaprogrammedStatements

\* the text with every such declaration taken out, the other lines in place
WithoutMetaprogramming ==
  IF input.contents.outer \in MetaprogrammedOuters THEN SourceText("", <<>>)
  ELSE SourceText(input.contents.outer,
                  [i \in DOMAIN input.contents.body |->
                     IF input.contents.body[i] \in MetaprogrammedStatements
                     THEN "x = 1" ELSE input.contents.body[i]])

\* C20 (metaprogrammed names are skipped): when the name of a class or of a
\* module declaration cannot be resolved to a textual constant name,
\* processing the file succeeds and returns what the file without that
\* declaration returns: no definition and no reference for the declaration or
\* for anything in its body, the rest of the file as usual.
C20_AsStated ==
  (output.processed_file.some /\ HasMetaprogramming) =>
    /\ output.processed_file.val.ok
    /\ output.processed_file.val =
         process_from_contents(WithoutMetaprogramming, FooRb, input.configuration)
    /\ output.collector.val.definitions =
         collect(WithoutMetaprogramming, input.configuration).definitions

\* C20, what the collector does: a class with such a name is skipped as
\* stated; a module with such a name makes the visit panic, so that no
\* ProcessedFile is returned
C20_ModulePanics ==
  (output.processed_file.some /\ HasMetaprogramming) =>
    LET module == \/ input.contents.outer = "module self::Foo"
                  \/ /\ input.contents.outer # "class self::Foo"
                     /\ \E i \in DOMAIN input.contents.body :
                          input.contents.body[i] = "module self::Baz; Bar; end"
    IN IF module
       THEN /\ output.collector.val.panicked
            /\ ~output.processed_file.val.ok
       ELSE /\ output.processed_file.val =
                 process_from_contents(WithoutMetaprogramming, FooRb, input.configuration)
            /\ output.collector.val.definitions =
                 collect(WithoutMetaprogramming, input.configuration).definitions

C20_Witness ==
  /\ output.processed_file.some
  /\ input.contents = SourceText("class Foo", <<"module self::Baz; Bar; end", "Foo::Bar">>)
  /\ output.collector.val.panicked
  /\ ~output.processed_file.val.ok

----------------------------------------------------------------------------
(* The cache that does nothing (cache/cached_noop.rs) behind the driver *)

\* C21 (no-op cache): while a run with caching disabled is under way, no step
\* changes the source tree, the cache directories or a cache file, and the
\* step in which a task asks the cache gets Miss with the default empty entry
\* and finishes the task with what process_file gives for the file.
C21_NoopCache ==
  [][(parsePc = "running" /\ ~config.cache_enabled) =>
       /\ UNCHANGED fsVars
       /\ \A p \in included_files :
            (getLog'[p] # getLog[p] /\ getLog'[p].some) =>
              /\ getLog'[p].val.result = Ok(Miss(EmptyCacheEntry_default))
              /\ taskPf'[p] = Some(process_file(p, files[p], config))
              /\ taskPc'[p] \in {"finished", "failed"}]_vars

\* a run with caching disabled has asked the cache for a file whose entry,
\* written by the run before and current, lies on disk, and processed the file
C21_Witness ==
  \E p \in included_files :
    /\ ~config.cache_enabled
    /\ getLog[p].some
    /\ stored[p].some
    /\ stored[p].val.contents = files[p]
    /\ cacheFiles[CachePath(p)] = JsonDoc(to_string(CacheEntry(md5_contents(files[p]),
                                                               stored[p].val.processed_file)))
    /\ getLog[p].val.result.val.kind = "Miss"
    /\ taskPf[p].some
    /\ taskPf[p].val.ok
    /\ taskPf[p].val.val.unresolved_references # <<>>

----------------------------------------------------------------------------
(* The collector's nesting: texts with classes inside classes, superclass   *)
(* expressions of one and of several constants, and references to the names *)
(* of the enclosing declarations.                                           *)

NestingOuters == {"", "class Foo", "class Foo < Bar", "module Bar", "module Foo::Bar"}

NestingStatements ==
  {"Foo", "Bar", "Foo::Bar", "class Baz; end", "class Baz < Foo; end", "class Baz < Bar; end",
   "class Baz < Struct.new(Foo, Bar); end", "module Baz; class Bar; Foo; Bar; end; end"}

\* the bodies of at most n statements
RECURSIVE NestingBodies(_)
NestingBodies(n) ==
  IF n = 0 THEN {<<>>}
  ELSE NestingBodies(n - 1) \cup
         {Append(b, st) : b \in {c \in NestingBodies(n - 1) : Len(c) = n - 1},
                          st \in NestingStatements}

InitNesting ==
  /\ Idle
  /\ input \in {[contents |-> SourceText(outer, body),
                 configuration |-> Configuration(FALSE, flag)] :
                  outer \in NestingOuters, body \in NestingBodies(MaxBody), flag \in BOOLEAN}
  /\ output = [collector |-> None, processed_file |-> None]

SpecNesting == InitNesting /\ [][NextCollect]_vars

\* the calls of on_const that pushed a reference, and of on_class
ConstCalls ==
  IF output.collector.some
  THEN {call \in Elems(output.collector.val.calls) :
          call.node.type = "Const" /\ call.emitted # <<>>}
  ELSE {}

\* the entries of `stack` named `name`, by index
Matching(stack, name) == {j \in DOMAIN stack : stack[j].name = name}

\* `namespaces` without the elements equal to `name`
Without(namespaces, name) == SelectSeq(namespaces, LAMBDA namespace : namespace # name)

\* C22 (nesting rule): on_const pushes one reference; when an entry of the
\* superclasses stack (the entry just pushed included) has the reference's
\* name, its namespace_path is the one recorded in the first such entry,
\* otherwise it is current_namespaces without the elements equal to the name.
C22_NestingRule ==
  \A call \in ConstCalls :
    LET r == call.emitted[1]
        matching == Matching(call.exit, r.name)
    IN /\ Len(call.emitted) = 1
       /\ r.name = fetch_const_const_name(call.node).val
       /\ IF matching # {}
          THEN /\ \E j \in matching : r.namespace_path = call.exit[j].namespace_path
               /\ r.namespace_path =
                    call.exit[CHOOSE j \in matching : \A k \in matching : j <= k].namespace_path
          ELSE r.namespace_path = Without(call.current_namespaces, r.name)

\* one text has a reference that takes the path of a superclass entry
\* differing from the filtered namespaces, and one that loses a namespace of
\* its own name from between two others
C22_Witness ==
  /\ \E call \in ConstCalls :
       /\ ~call.in_superclass
       /\ Matching(call.exit, call.emitted[1].name) # {}
       /\ call.emitted[1].namespace_path # Without(call.current_namespaces, call.emitted[1].name)
  /\ \E call \in ConstCalls :
       /\ Matching(call.exit, call.emitted[1].name) = {}
       /\ call.current_namespaces = <<<<"Foo">>, <<"Baz">>, <<"Bar">>>>
       /\ call.emitted[1].namespace_path = <<<<"Baz">>, <<"Bar">>>>

\* the calls of on_class that did not return at a metaprogrammed name
ClassCalls ==
  IF output.collector.some
  THEN {call \in Elems(output.collector.val.calls) :
          call.node.type = "Class" /\ fetch_const_name(call.node.name).ok}
  ELSE {}

\* the constants the visitor reaches in a superclass expression, in its order
RECURSIVE SuperclassConsts(_)
SuperclassConsts(nodes) ==
  IF nodes = <<>> THEN <<>>
  ELSE (CASE Head(nodes).type = "Const" -> <<Head(nodes)>>
          [] Head(nodes).type = "Send" ->
               SuperclassConsts(OptSeq(Head(nodes).recv) \o Head(nodes).args)
          [] OTHER -> <<>>)
       \o SuperclassConsts(Tail(nodes))

\* what visiting the superclass of `call` pushes onto the stack
Pushed(call) ==
  LET consts == SuperclassConsts(OptSeq(call.node.superclass))
  IN [i \in DOMAIN consts |->
        [name |-> fetch_const_const_name(consts[i]).val,
         namespace_path |-> call.current_namespaces]]

DropLast(stack) == IF stack = <<>> THEN stack ELSE SubSeq(stack, 1, Len(stack) - 1)

HasClass(nodes) ==
  \E i \in DOMAIN nodes :
    \/ nodes[i].type = "Class"
    \/ nodes[i].type = "Module" /\ \E j \in DOMAIN nodes[i].body : nodes[i].body[j].type = "Class"

\* C23 (superclass stack discipline), as stated: every class declaration
\* leaves the superclasses stack as it found it.
C23_AsStated == \A call \in ClassCalls : call.exit = call.entry

\* C23, what the collector does: a class declaration whose body declares no
\* class leaves the stack it found plus what its superclass pushed, less the
\* one entry on top: the stack it found only when the superclass is a single
\* constant, or when there is no superclass and the stack was empty.
C23_PopsOne ==
  \A call \in ClassCalls :
    ~HasClass(call.node.body) =>
      /\ call.exit = DropLast(call.entry \o Pushed(call))
      /\ (call.exit = call.entry) <=>
           \/ Len(Pushed(call)) = 1
           \/ Len(Pushed(call)) = 0 /\ call.entry = <<>>

\* a class without a superclass, declared inside a class that has one, has
\* taken the entry of the enclosing class off the stack; and a class whose
\* superclass names several constants has left entries behind
C23_Witness ==
  /\ input.contents.outer = "class Foo < Bar"
  /\ \E call \in ClassCalls :
       /\ ~call.node.superclass.some
       /\ call.entry = <<[name |-> <<"Bar">>, namespace_path |-> <<>>]>>
       /\ call.exit = <<>>
  /\ \E call \in ClassCalls :
       /\ Len(Pushed(call)) = 3
       /\ Len(call.exit) = Len(call.entry) + 2

----------------------------------------------------------------------------
(* The collector on association calls, under configurations with and        *)
(* without acronyms and custom associations                                 *)

AssociationOuters == {"", "class Foo"}

AssociationStatements ==
  {"has_many :api_keys", "has_many :companies", "has_lots :companies",
   "has_one :foo, class_name: 'Foo::Bar'", "has_one class_name: 'Bar'", "belongs_to",
   "has_many 'bars'", "validates :foo", "belongs_to :api_key, class_name: Bar"}

\* the bodies of at most n statements
RECURSIVE AssociationBodies(_)
AssociationBodies(n) ==
  IF n = 0 THEN {<<>>}
  ELSE AssociationBodies(n - 1) \cup
         {Append(b, st) : b \in {c \in AssociationBodies(n - 1) : Len(c) = n - 1},
                          st \in AssociationStatements}

AcronymSets == {{}, {"API"}}
CustomAssociations == {<<>>, <<"has_lots">>}

InitAssociations ==
  /\ Idle
  /\ input \in {[contents |-> SourceText(outer, body),
                 configuration |-> [Configuration(FALSE, FALSE) EXCEPT
                                      !.acronyms = acronyms,
                                      !.custom_associations = custom_associations]] :
                  outer \in AssociationOuters, body \in AssociationBodies(MaxBody),
                  acronyms \in AcronymSets, custom_associations \in CustomAssociations}
  /\ output = [collector |-> None, processed_file |-> None]

SpecAssociations == InitAssociations /\ [][NextCollect]_vars

\* the calls of on_send
SendCalls ==
  IF output.collector.some
  THEN {call \in Elems(output.collector.val.calls) : call.node.type = "Send"}
  ELSE {}

\* the string values of the class_name: keyword arguments of a call
ClassNames(node) ==
  {pair.value.value :
     pair \in {p \in UNION {Elems(arg.pairs) :
                              arg \in {a \in Elems(node.args) : a.type = "Kwargs"}} :
                /\ p.key.type = "Sym"
                /\ p.key.name = "class_name"
                /\ p.value.type = "Str"}}

IsAssociation(node) ==
  node.method_name \in Elems(ASSOCIATION_METHOD_NAMES)
                        \cup Elems(input.configuration.custom_associations)

\* the name the rule gives for a call, with `acronyms` as the acronym set
DerivedName(node, acronyms) ==
  IF ClassNames(node) # {} THEN Some(CHOOSE name \in ClassNames(node) : TRUE)
  ELSE IF node.args # <<>> /\ node.args[1].type = "Sym"
       THEN Some(to_class_case(node.args[1].name, acronyms))
       ELSE None

\* the references a call pushed for itself (those that span the call)
OwnReferences(call) ==
  SelectSeq(call.emitted, LAMBDA r : r.location = loc_to_range(call.node))

\* every call pushed for itself what the rule gives under `acronyms`
FollowsRule(call, acronyms) ==
  IF IsAssociation(call.node) /\ DerivedName(call.node, acronyms).some
  THEN OwnReferences(call) =
         <<UnresolvedReference(DerivedName(call.node, acronyms).val,
                               call.current_namespaces, loc_to_range(call.node))>>
  ELSE OwnReferences(call) = <<>>

\* C24 (association name derivation), as stated: the name is the class_name
\* string when there is one, else the class case of the first argument's
\* symbol under the configured acronyms, else nothing is pushed.
C24_AsStated == \A call \in SendCalls : FollowsRule(call, input.configuration.acronyms)

\* C24, what the collector does: the same rule with the empty acronym set,
\* whatever the configuration holds.
C24_NoAcronyms == \A call \in SendCalls : FollowsRule(call, {})

\* under a configuration with the acronym API, a call whose symbol holds the
\* acronym has pushed its reference
C24_Witness ==
  /\ input.configuration.acronyms = {"API"}
  /\ \E call \in SendCalls :
       /\ call.node.args = <<Sym("api_keys")>>
       /\ OwnReferences(call) # <<>>
       /\ OwnReferences(call)[1].name = <<"ApiKey">>
       /\ DerivedName(call.node, input.configuration.acronyms) = Some(<<"APIKey">>)

----------------------------------------------------------------------------
(* The map of the self-reference filter over what the collector defines *)

CollectedDefinitions ==
  IF output.collector.some THEN output.collector.val.definitions ELSE <<>>

\* the definitions whose name starts with `key`, by index
Contributors(key) ==
  {j \in DOMAIN CollectedDefinitions : IsPrefix(key, CollectedDefinitions[j].fully_qualified_name)}

\* C25 (definition-prefix map): every prefix of a definition's name that
\* reaches past the leading "::" is a key of the map, and the key's value is
\* the location of the first definition, in the collector's order, whose
\* name starts with it.
C25_PrefixMap ==
  LET map == definition_to_location_map(CollectedDefinitions)
  IN \A i \in DOMAIN CollectedDefinitions :
       \A index \in 2..Len(CollectedDefinitions[i].fully_qualified_name) :
         LET key == SubSeq(CollectedDefinitions[i].fully_qualified_name, 1, index)
             first == CHOOSE j \in Contributors(key) : \A k \in Contributors(key) : j <= k
         IN /\ key \in DOMAIN map
            /\ map[key] = CollectedDefinitions[first].location

\* a text has been visited in which ::Foo::Bar is a key that three
\* definitions at three places contribute, the second and third later
C25_Witness ==
  /\ Len(CollectedDefinitions) = 3
  /\ Contributors(<<"", "Foo", "Bar">>) = {1, 2, 3}
  /\ \A i, j \in 1..3 :
       i # j => CollectedDefinitions[i].location # CollectedDefinitions[j].location
  /\ definition_to_location_map(CollectedDefinitions)[<<"", "Foo", "Bar">>] =
       CollectedDefinitions[1].location

----------------------------------------------------------------------------
(* The workers of one run and the cache files they touch *)

\* the tasks that are between the File::create and the end of write_all
Writing == {"processed", "create_failed", "dir_ok", "created", "created2"}

WriteErrors == {Err("Failed to create cache directory"), Err("failed to create cache file")}

\* C26 (no contention on cache entries): distinct included paths have
\* distinct cache files; a step of a run that changes a cache file is a step
\* of the one task whose path the file belongs to, and the key a task is
\* handed on a Miss names the file of its own path; and while the cache
\* directory is not read-only no task ends with a failed write, also when
\* several tasks create the shard directory they share.
C26_NoContention ==
  [][/\ \A p, q \in included_files : p # q => CachePath(p) # CachePath(q)
     /\ parsePc = "running" =>
          /\ \A cp \in CachePaths :
               cacheFiles'[cp] # cacheFiles[cp] =>
                 \E p \in included_files :
                   /\ CachePath(p) = cp
                   /\ taskPc[p] \in Writing
                   /\ taskPc'[p] # taskPc[p]
                   /\ \A q \in included_files \ {p} :
                        taskPc'[q] = taskPc[q] /\ cacheFiles'[CachePath(q)] = cacheFiles[CachePath(q)]
          /\ \A p \in included_files :
               taskKey'[p].some => taskKey'[p].val.cache_file_path = CachePath(p)
          /\ cacheRoot # "ro" =>
               \A p \in included_files : ~(taskPf'[p].some /\ taskPf'[p].val \in WriteErrors)]_vars

\* both tasks of a run found the shard directory they share missing, both
\* created it, and both have written their entries
C26_Witness ==
  /\ parsePc = "running"
  /\ CachePath(FooRb).shard = CachePath(BarRb).shard
  /\ \A p \in included_files :
       /\ taskPc[p] \in {"finished", "joined"}
       /\ stored[p].some
       /\ stored[p].val.made_dir
       /\ cacheFiles[CachePath(p)].kind = "json"

----------------------------------------------------------------------------
(* Cache hits across runs with different configurations *)

\* the gets of the current run that returned Processed
HitGets ==
  {p \in Gets : getLog[p].val.result.ok /\ getLog[p].val.result.val.kind = "Processed"}

\* C27 (a cache hit is current), as stated: a hit for P returns what
\* process_file gives for P under the configuration of the current run.
C27_AsStated ==
  \A p \in HitGets :
    Ok(getLog[p].val.result.val.processed_file) = process_file(p, getLog[p].val.contents, config)

\* C27, what the cache does: a hit for P returns what process_file gave for
\* P's contents under the configuration of the run that wrote the entry.
C27_HitIsAsWritten ==
  \A p \in HitGets :
    LET g == getLog[p].val
    IN /\ g.stored.some
       /\ g.stored.val.contents = g.contents
       /\ Ok(g.result.val.processed_file) = process_file(p, g.contents, g.stored.val.config)

\* a run that takes declarations for references hits an entry written by a
\* run that filtered them, and is handed fewer references than it would collect
C27_Witness ==
  \E p \in HitGets :
    LET g == getLog[p].val
    IN /\ config.include_reference_is_definition
       /\ ~g.stored.val.config.include_reference_is_definition
       /\ process_file(p, g.contents, config).ok
       /\ Len(g.result.val.processed_file.unresolved_references) <
            Len(process_file(p, g.contents, config).val.unresolved_references)

----------------------------------------------------------------------------
(* CachedFile::write step by step beside a get of the same path.  The       *)
(* writer is a task after its Miss; the reader is another caller of get on  *)
(* the same cache file, which reads the file in two parts, so that the      *)
(* writer can act between them.  The source file keeps its contents.        *)

\* the bytes of the entry written for `contents` under `configuration`
EntryBytes(path, contents, configuration) ==
  JsonDoc(to_string(CacheEntry(md5_contents(contents),
                               process_file(path, contents, configuration).val)))

\* what write_all has put into the file when only a part is written yet
PartialBytes == Raw("{\"file_contents_digest\":")

\* what the cache file can hold before the write: nothing, bytes that are no
\* entry, an entry for these or for other contents, written under either flag
BytesBefore(path) ==
  {Absent, Raw("$$$")} \cup
    {EntryBytes(path, contents, Configuration(TRUE, flag)) :
       contents \in ContentsUniverse, flag \in BOOLEAN}

InitWrite ==
  /\ Idle
  /\ input \in {[path |-> path, contents |-> contents,
                 configuration |-> Configuration(TRUE, flag), before |-> before] :
                  path \in included_files, contents \in ContentsUniverse, flag \in BOOLEAN,
                  before \in BytesBefore(FooRb) \cup BytesBefore(BarRb)}
  /\ input.before \in BytesBefore(input.path)
  /\ output = [disk |-> input.before, writer |-> "spawned", head |-> None, got |-> None]

Disk(bytes) == [cp \in CachePaths |-> bytes]

\* the writer's from_cache_or_process up to cache.write
WriterGet ==
  /\ output.writer = "spawned"
  /\ LET r == CachedFile_get(Disk(output.disk), input.path, input.contents)
     IN output' = [output EXCEPT
                     !.writer = IF ~r.ok THEN "failed"
                                ELSE IF r.val.kind = "Miss" THEN "processed" ELSE "finished"]
  /\ UNCHANGED <<driverVars, input>>

\* File::create: the file is there and empty
WriterCreate ==
  /\ output.writer = "processed"
  /\ output' = [output EXCEPT !.disk = Raw(""), !.writer = "created"]
  /\ UNCHANGED <<driverVars, input>>

\* write_all: a first write call that takes a part of the bytes
WritePart ==
  /\ output.writer = "created"
  /\ output' = [output EXCEPT !.disk = PartialBytes, !.writer = "partial"]
  /\ UNCHANGED <<driverVars, input>>

\* write_all: the bytes are all in the file
WriteRest ==
  /\ output.writer \in {"created", "partial"}
  /\ output' = [output EXCEPT
                  !.disk = EntryBytes(input.path, input.contents, input.configuration),
                  !.writer = "finished"]
  /\ UNCHANGED <<driverVars, input>>

\* the run ends while the write is under way (parse bails and drops the
\* JoinSet, or the process is stopped)
AbandonWrite ==
  /\ output.writer \in {"created", "partial"}
  /\ output' = [output EXCEPT !.writer = "aborted"]
  /\ UNCHANGED <<driverVars, input>>

\* the reader's get: exists(), open and the first read of read_to_end
ReadHead ==
  /\ ~output.head.some
  /\ output' = [output EXCEPT !.head = Some(output.disk)]
  /\ UNCHANGED <<driverVars, input>>

\* what read_to_end can return when it read `head` first and the file holds
\* `tail` at its later reads
TornReads(head, tail) ==
  IF head = tail \/ head.kind = "absent" \/ head = Raw("") THEN {head}
  ELSE IF head = PartialBytes /\ tail.kind = "json" THEN {tail}
  ELSE IF head.kind = "json" /\ tail.kind = "json"
       THEN {JsonDoc(JObj([file_contents_digest |-> head.doc.v.file_contents_digest,
                           processed_file |-> tail.doc.v.processed_file])),
             Raw("torn")}
       ELSE IF head.kind = "json" THEN {Raw("torn")} ELSE {head}

\* the reader's get: the rest of read_to_end, from_slice and the comparison
ReadTail ==
  /\ output.head.some
  /\ ~output.got.some
  /\ \E bytes \in TornReads(output.head.val, output.disk) :
       output' = [output EXCEPT
                    !.got = Some([bytes |-> bytes,
                                  result |-> CachedFile_get(Disk(bytes), input.path,
                                                            input.contents)])]
  /\ UNCHANGED <<driverVars, input>>

NextWrite ==
  \/ WriterGet
  \/ WriterCreate
  \/ WritePart
  \/ WriteRest
  \/ AbandonWrite
  \/ ReadHead
  \/ ReadTail

SpecWrite == InitWrite /\ [][NextWrite]_vars

\* the ProcessedFiles written for the contents the file has: by the writer,
\* and by whoever wrote the entry that was there before, if it was for them
WrittenForContents ==
  {process_file(input.path, input.contents, input.configuration).val} \cup
    {process_file(input.path, input.contents, Configuration(TRUE, flag)).val :
       flag \in {f \in BOOLEAN :
                   input.before = EntryBytes(input.path, input.contents, Configuration(TRUE, f))}}

\* C28 (non-atomic write and readers): whatever the writer has done when
\* the reader reads, the reader's get returns no error; it returns Miss, or
\* Processed with a ProcessedFile written for the contents the file has.
C28_ReadersSafe ==
  output.got.some =>
    /\ output.got.val.result.ok
    /\ \/ output.got.val.result.val.kind = "Miss"
       \/ /\ output.got.val.result.val.kind = "Processed"
          /\ output.got.val.result.val.processed_file \in WrittenForContents

\* an entry for other contents was on disk; the reader had begun to read it
\* when the writer truncated the file, and the writer was abandoned before
\* it wrote: the reader got Miss
C28_Witness ==
  /\ output.writer = "aborted"
  /\ output.disk = Raw("")
  /\ input.before.kind = "json"
  /\ output.head = Some(input.before)
  /\ output.got.some
  /\ output.got.val.bytes = Raw("torn")
  /\ output.got.val.result.ok
  /\ output.got.val.result.val.kind = "Miss"

----------------------------------------------------------------------------
(* impl Ord for Reference beside the derived PartialEq, on pairs of         *)
(* references                                                               *)

ExtraFields ==
  {EmptyMap,
   "referencing_pack_name" :> "foo",
   "referencing_pack_name" :> "bar",
   ("referencing_pack_name" :> "foo") @@ ("defining_pack_name" :> "bar")}

References ==
  {Reference(constant_name, relative_defining_file, relative_referencing_file,
             [line |-> line, column |-> column], extra_fields) :
     constant_name \in {<<"", "Foo">>, <<"", "Foo", "Bar">>},
     relative_defining_file \in {None, Some(PathOrder[5])},
     relative_referencing_file \in {PathOrder[4], PathOrder[5]},
     line \in {1, 2}, column \in {0},
     extra_fields \in ExtraFields}

InitOrder ==
  /\ Idle
  /\ input \in [self : References, other : References]
  /\ output = [ordering |-> None, sorted |-> None]

\* self.cmp(&other)
Compare ==
  /\ ~output.ordering.some
  /\ output' = [output EXCEPT !.ordering = Some(cmp(input.self, input.other))]
  /\ UNCHANGED <<driverVars, input>>

\* references.sort() on the two references in either order
SortBoth ==
  /\ ~output.sorted.some
  /\ output' = [output EXCEPT
                  !.sorted = Some([forward |-> sort(<<input.self, input.other>>),
                                   backward |-> sort(<<input.other, input.self>>)])]
  /\ UNCHANGED <<driverVars, input>>

NextOrder == Compare \/ SortBoth

SpecOrder == InitOrder /\ [][NextOrder]_vars

\* the derived PartialEq: every field, the extra fields with their values
eq(self, other) ==
  /\ self.constant_name = other.constant_name
  /\ self.relative_defining_file = other.relative_defining_file
  /\ self.relative_referencing_file = other.relative_referencing_file
  /\ self.source_location = other.source_location
  /\ self.extra_fields = other.extra_fields

\* C29 (order and equality), as stated: cmp gives Equal exactly for equal
\* references, and the two references sort to the same sequence from either
\* order.
C29_AsStated ==
  /\ output.ordering.some =>
       (output.ordering.val = "Equal" <=> eq(input.self, input.other))
  /\ output.sorted.some => output.sorted.val.forward = output.sorted.val.backward

\* C29, what the order does: cmp gives Equal exactly for references that
\* agree in every field but the extra fields and have equally many of those;
\* equal references compare Equal; and the two orders sort alike exactly
\* when the references are equal or do not compare Equal.
C29_EqualUpToExtraFields ==
  /\ output.ordering.some =>
       /\ output.ordering.val = "Equal" <=>
            /\ eq([input.self EXCEPT !.extra_fields = EmptyMap],
                  [input.other EXCEPT !.extra_fields = EmptyMap])
            /\ Cardinality(DOMAIN input.self.extra_fields) =
                 Cardinality(DOMAIN input.other.extra_fields)
       /\ eq(input.self, input.other) => output.ordering.val = "Equal"
  /\ output.sorted.some =>
       (output.sorted.val.forward = output.sorted.val.backward <=>
          (eq(input.self, input.other) \/ cmp(input.self, input.other) # "Equal"))

\* two references that differ only in the value of an extra field compare
\* Equal and are sorted as they came
C29_Witness ==
  /\ output.ordering = Some("Equal")
  /\ input.self.extra_fields = ("referencing_pack_name" :> "foo")
  /\ input.other.extra_fields = ("referencing_pack_name" :> "bar")
  /\ output.sorted.some
  /\ output.sorted.val.forward = <<input.self, input.other>>
  /\ output.sorted.val.backward = <<input.other, input.self>>

----------------------------------------------------------------------------
(* Resolver construction: inferred_constants under every iteration order    *)
(* of the autoload-root map.                                                *)

\* the autoload roots of the tree
AutoloadRoots == {ServicesFoo, ServicesBar, ModelsBar, ConcernsBar, CompanyData}

\* every order in which configuration.autoload_paths.keys() may iterate
AllRootOrders ==
  {roots \in [1..Cardinality(AutoloadRoots) -> AutoloadRoots] :
     \A i, j \in DOMAIN roots : roots[i] = roots[j] => i = j}

InitInfer ==
  /\ Idle
  /\ input \in {[configuration |-> configuration, roots |-> roots,
                 defined_files |-> defined_files] :
                  configuration \in ResolveConfigurations,
                  roots \in AllRootOrders, defined_files \in FileOrders}
  /\ output = [constants |-> None]

\* let constants = inferred_constants(configuration)
Infer ==
  /\ ~output.constants.some
  /\ output' = [output EXCEPT
                  !.constants = Some(inferred_constants(input.configuration, input.roots,
                                                        input.defined_files))]
  /\ UNCHANGED <<driverVars, input>>

NextInfer == Infer

SpecInfer == InitInfer /\ [][NextInfer]_vars

\* the files globbed under any autoload root of the configuration
GlobbedFiles(configuration) ==
  UNION {glob_rb(root) : root \in DOMAIN configuration.autoload_paths}

\* the definitions of a list, as a set
DefinitionSet(constants) == {constants[i] : i \in DOMAIN constants}

\* C30 (resolver construction): inferred_constants lists every file globbed
\* under any autoload root exactly once, a file under two nested roots
\* included, and the set of definitions is the one every other iteration
\* order of the autoload-root map gives.
C30_OnePerFile ==
  output.constants.some =>
    LET constants == output.constants.val
    IN /\ {constants[i].absolute_path_of_definition : i \in DOMAIN constants} =
            GlobbedFiles(input.configuration)
       /\ \A i, j \in DOMAIN constants :
            constants[i].absolute_path_of_definition =
              constants[j].absolute_path_of_definition => i = j
       /\ \A roots \in RootOrders, defined_files \in FileOrders :
            DefinitionSet(inferred_constants(input.configuration, roots, defined_files)) =
              DefinitionSet(constants)

\* the shorter of two nested roots is visited last, and the file under both
\* is listed once, under the longer root
C30_Witness ==
  /\ output.constants.some
  /\ \E i, j \in DOMAIN input.roots :
       i < j /\ input.roots[i] = ConcernsBar /\ input.roots[j] = ModelsBar
  /\ SomeConcernRb \in glob_rb(ModelsBar) \cap glob_rb(ConcernsBar)
  /\ Cardinality({i \in DOMAIN output.constants.val :
                    output.constants.val[i].absolute_path_of_definition = SomeConcernRb}) = 1
  /\ \E i \in DOMAIN output.constants.val :
       output.constants.val[i] = ConstantDefinition(<<"", "SomeConcern">>, SomeConcernRb)

====
